---------------------------- MODULE Spec2Model ----------------------------
(***************************************************************************)
(* Model of the Jetson-Live-Translator streaming pipeline:                 *)
(*   - the incremental commit engine      (s2t/commit.py)                  *)
(*   - the wire framing codec             (net/protocol.py)                *)
(*   - the pipeline worker and its queues (pipeline/coordinator.py)        *)
(* Text is a sequence of characters, a character is a small integer and    *)
(* WS is the one whitespace character.  A byte is an integer in 0..255.    *)
(***************************************************************************)
EXTENDS Integers, Sequences, FiniteSets, TLC

VARIABLES
    commit_config,   \* SimpleCommitter.config  (CommitConfig)
    _history,        \* SimpleCommitter._history  (deque, maxlen = history_len)
    _committed,      \* SimpleCommitter._committed
    c_op,            \* the committer call made last: "init", "reset", "feed", "finalize"
    c_text,          \* the argument of that call, trimmed
    c_delta,         \* the value that call returned
    c_acc,           \* the deltas returned by feed since the last reset, concatenated
    c_drift,         \* since the last reset C was truncated by a drift correction or replaced by finalize
    c_chain,         \* every text fed since the last reset has the text fed before it as a prefix
    c_recent         \* while c_chain: the texts fed since the last reset, the last three of them

VARIABLES
    _buf,            \* StreamParser._buf
    wire,            \* the bytes of the stream that have not been fed to the parser yet
    p_junk,          \* the junk bytes the stream began with
    p_sent,          \* the packets encoded into the stream after the junk, in order
    p_out,           \* the packets the last StreamParser.feed call returned
    p_all,           \* the packets returned by all feed calls so far, in order
    p_fed,           \* the number of bytes fed so far
    p_calls          \* the number of feed calls so far: 0, 1, or 2 for two or more

VARIABLES
    audio_q,         \* Coordinator.audio_q: the chunks put and not yet dequeued, each [lang, samples]
    tx_q,            \* Coordinator.tx_q: the (translated, src_lang) items put and not yet drained
    buffer,          \* PipelineWorker.buffer._data: each sample carries the language of its chunk
    current_lang,    \* PipelineWorker.current_lang
    since_audio,     \* time.monotonic() - last_audio_ts in poll periods, MinWindowTicks meaning that or more
    rate_wait,       \* RateLimiter: poll periods left until time.time() >= t_next
    w_alive,         \* the worker thread is running (FALSE once an exception has left run)
    w_event,         \* what the last worker iteration was: "init", "timeout", "idle_flush", "chunk", "switch"
    w_prev_lang,     \* current_lang when that iteration began
    w_had_audio,     \* the ring buffer was non-empty when that iteration began
    w_flush,         \* what its _flush did: [ran, translated]
    w_mid,           \* a chunk iteration, the moment before buffer.append: [appended, buffer, committer, nput]
    w_put,           \* the items that iteration put on tx_q, in order
    w_raised,        \* an ASR or MT call of that iteration raised
    q_dropped,       \* the last put_nowait on audio_q raised queue.Full, nothing dequeued since
    since_asr,       \* poll periods since the last transcribe call, at most StepTicks
    w_asr_gap,       \* the least time between a transcribe call of that iteration and the call before it
    w_started,       \* run has made its first test of the stop flag
    w_after_stop     \* the iterations run has made with the stop flag set, at most 2 counted

VARIABLES
    _data,           \* FloatRingBuffer._data of a ring buffer of its own
    _max_samples,    \* FloatRingBuffer._max_samples
    r_all,           \* every sample appended since construction or the last clear, in order
    r_op,            \* the ring buffer call made last: "init", "append", "clear", "get_last"
    r_count,         \* the count of the last get_last call
    r_ret            \* what the last get_last call returned

VARIABLES
    conn,            \* TCPServer.conn is not None: a client is connected
    text_max_payload, \* PipelineConfig.text_max_payload
    d_items,         \* the content of tx_q when the last _drain_tx call began
    d_sent,          \* the packets that call handed to sendall with success, in order
    d_failed         \* a send of that call returned False

VARIABLES
    stop,            \* the threading.Event both loops test at their heads
    c_pc,            \* Coordinator.start: "loop", "returned", "interrupted" or "raised"
    joined           \* start has joined the worker: waited for its end or for a timeout

VARIABLES
    dec_payload,     \* the bytes handed to decode_packed_24bit_stereo_to_mono
    dec_channels,    \* its channels argument
    dec_select,      \* its channel_select argument
    dec_called,      \* the decoder has been called
    dec_out          \* the samples it returned, each in units of 2^-24

VARIABLES
    co_current_lang, \* Coordinator.current_lang
    carry,           \* Coordinator.carry
    co_channels,     \* PipelineConfig.channels
    i_pkts,          \* the packets _poll_network has processed, in order
    i_decoded,       \* the bytes it has passed to the decoder, concatenated
    i_chunk          \* the decoder call and the chunk it made for the last packet

VARIABLES
    srv_pending,     \* clients that wait in the backlog of the listening socket
    self_conn,       \* TCPServer.conn as a socket: 0 for None, else the number of the socket
    open_socks,      \* the accepted sockets that have not been closed
    accepted,        \* how many clients accept has returned so far
    peer,            \* what a recv on self_conn would meet: "quiet", "data", "eof", "error"
    poll_did,        \* what the last call of the endpoint did: [accepted, closed, recv, data, sent]
    left_over        \* what the coordinator held when a connection was last closed:
                     \* [sock, buf, carry, pkts, decoded], lengths and counts

commit_vars == <<commit_config, _history, _committed, c_op, c_text, c_delta, c_acc, c_drift,
                 c_chain, c_recent>>

parser_vars == <<_buf, wire, p_junk, p_sent, p_out, p_all, p_fed, p_calls>>

worker_vars == <<audio_q, tx_q, buffer, current_lang, since_audio, rate_wait, w_alive, w_event,
                 w_prev_lang, w_had_audio, w_flush, w_mid, w_put, w_raised, q_dropped,
                 since_asr, w_asr_gap, w_started, w_after_stop>>

ring_vars == <<_data, _max_samples, r_all, r_op, r_count, r_ret>>

\* the variables of the parts below the worker
tx_vars == <<conn, text_max_payload, d_items, d_sent, d_failed>>

stop_vars == <<stop, c_pc, joined>>

dec_vars == <<dec_payload, dec_channels, dec_select, dec_called, dec_out>>

ingest_vars == <<co_current_lang, carry, co_channels, i_pkts, i_decoded, i_chunk>>

tcp_vars == <<srv_pending, self_conn, open_socks, accepted, peer, poll_did, left_over>>

rest_vars == <<ring_vars, tx_vars, stop_vars, dec_vars, ingest_vars, tcp_vars>>

vars == <<commit_vars, parser_vars, worker_vars, rest_vars>>

-----------------------------------------------------------------------------
(* Bounds and alphabets *)

\* every text of at most MaxLen characters is handed to the committer
MaxLen == 3

WS == 0
Chars == {WS, 1}

\* CommitConfig.min_overlap_chars
MIN_OVERLAP_CHARS == 4

HistoryLens == {2, 3}
MinCommitChars == {1, 2}

\* longer texts, with overlaps of MIN_OVERLAP_CHARS characters among them
LongTexts == {<<1, 1, WS, 1, 1>>, <<1, WS, 1, 1, 1>>, <<1, WS, 1, 1>>}

Texts == UNION {[1..n -> Chars] : n \in 0..MaxLen} \cup LongTexts

-----------------------------------------------------------------------------
(* Strings *)

Min(a, b) == IF a <= b THEN a ELSE b

\* s[i:] for 0 <= i
Drop(s, i) == IF i >= Len(s) THEN <<>> ELSE SubSeq(s, i + 1, Len(s))

\* s[:i] for 0 <= i
Take(s, i) == SubSeq(s, 1, Min(i, Len(s)))

\* s[-n:] for 1 <= n
LastN(s, n) == IF n >= Len(s) THEN s ELSE SubSeq(s, Len(s) - n + 1, Len(s))

\* text.startswith(p)
StartsWith(text, p) == Len(p) <= Len(text) /\ SubSeq(text, 1, Len(p)) = p

RECURSIVE lstrip(_)
lstrip(s) == IF s # <<>> /\ Head(s) = WS THEN lstrip(Tail(s)) ELSE s

RECURSIVE rstrip(_)
rstrip(s) == IF s # <<>> /\ s[Len(s)] = WS THEN rstrip(SubSeq(s, 1, Len(s) - 1)) ELSE s

\* str.strip()
strip(s) == rstrip(lstrip(s))

-----------------------------------------------------------------------------
(* s2t/commit.py *)

\* min(items, key=len): the first of the shortest items
Shortest(items) ==
    LET m == CHOOSE i \in 1..Len(items) :
                 /\ \A j \in 1..Len(items) : Len(items[i]) <= Len(items[j])
                 /\ \A j \in 1..(i - 1) : Len(items[j]) > Len(items[i])
    IN  items[m]

_lcp_all(items) ==
    IF items = <<>> THEN <<>>
    ELSE LET shortest == Shortest(items)
             \* the indices i at which some item differs from shortest
             bad == {i \in 1..Len(shortest) :
                        \E k \in 1..Len(items) : items[k][i] # shortest[i]}
         IN  IF bad = {} THEN shortest
             ELSE Take(shortest, (CHOOSE i \in bad : \A j \in bad : i <= j) - 1)

_overlap_suffix_prefix(left, right) ==
    LET max_len == Min(Len(left), Len(right))
        ok == {size \in 1..max_len : LastN(left, size) = Take(right, size)}
    IN  IF ok = {} THEN 0 ELSE CHOOSE size \in ok : \A t \in ok : t <= size

\* a deque that never drops its oldest item
DequeAppendUnbounded(d, x, n) == Append(d, x)

\* deque(maxlen=n).append(x)
DequeAppend(d, x, n) ==
    IF n = 0 THEN <<>>
    ELSE IF Len(d) >= n THEN Append(Tail(d), x) ELSE Append(d, x)

\* The committer as a value: [history, committed]; a call returns the new
\* value together with the delta it returns and whether it truncated C.
CommitterState == [history |-> _history, committed |-> _committed]

\* lines 60-64 of feed: the drift check
FeedDrift(cfg, st, text) ==
    IF st.committed # <<>> /\ ~StartsWith(text, st.committed)
    THEN LET overlap == _overlap_suffix_prefix(st.committed, text)
         IN  [history   |-> <<>>,
              committed |-> IF overlap >= cfg.min_overlap_chars
                            THEN (IF overlap # 0 THEN LastN(st.committed, overlap) ELSE <<>>)
                            ELSE st.committed,
              truncated |-> overlap >= cfg.min_overlap_chars]
    ELSE [history |-> st.history, committed |-> st.committed, truncated |-> FALSE]

\* lines 65-75 of feed: append to the history and commit the stable prefix
FeedCommit(cfg, d, text) ==
    LET hist   == DequeAppend(d.history, text, cfg.history_len)
        stable == _lcp_all(hist)
    IN  IF Len(stable) <= Len(d.committed)
        THEN [history |-> hist, committed |-> d.committed, delta |-> <<>>, truncated |-> d.truncated]
        ELSE IF Len(stable) - Len(d.committed) < cfg.min_commit_chars
        THEN [history |-> hist, committed |-> d.committed, delta |-> <<>>, truncated |-> d.truncated]
        ELSE [history |-> hist, committed |-> stable,
              delta |-> Drop(stable, Len(d.committed)), truncated |-> d.truncated]

feed(cfg, st, raw) ==
    LET text == strip(raw)
    IN  IF text = <<>>
        THEN [history |-> st.history, committed |-> st.committed, delta |-> <<>>, truncated |-> FALSE]
        ELSE FeedCommit(cfg, FeedDrift(cfg, st, text), text)

finalize(cfg, st, raw) ==
    LET text == strip(raw)
    IN  IF text = <<>>
        THEN [history |-> st.history, committed |-> st.committed, delta |-> <<>>]
        ELSE IF StartsWith(text, st.committed)
        THEN [history |-> st.history, committed |-> text, delta |-> Drop(text, Len(st.committed))]
        ELSE LET overlap == _overlap_suffix_prefix(st.committed, text)
             IN  IF st.committed # <<>> /\ overlap # 0
                 THEN [history |-> <<>>, committed |-> text, delta |-> Drop(text, overlap)]
                 ELSE [history |-> <<>>, committed |-> text, delta |-> text]

\* SimpleCommitter.__init__
CommitterInit(configs) ==
    /\ commit_config \in configs
    /\ _history = <<>>
    /\ _committed = <<>>
    /\ c_op = "init"
    /\ c_text = <<>>
    /\ c_delta = <<>>
    /\ c_acc = <<>>
    /\ c_drift = FALSE
    /\ c_chain = TRUE
    /\ c_recent = <<>>

\* SimpleCommitter.reset
Reset ==
    /\ _history' = <<>>
    /\ _committed' = <<>>
    /\ c_op' = "reset"
    /\ c_text' = <<>>
    /\ c_delta' = <<>>
    /\ c_acc' = <<>>
    /\ c_drift' = FALSE
    /\ c_chain' = TRUE
    /\ c_recent' = <<>>
    /\ UNCHANGED <<commit_config, parser_vars, worker_vars, rest_vars>>

MaxHistoryLen == CHOOSE h \in HistoryLens : \A g \in HistoryLens : g <= h

\* text continues the chain of texts fed since the last reset
ExtendsChain(text) ==
    c_chain /\ (c_recent = <<>> \/ StartsWith(text, c_recent[Len(c_recent)]))

\* SimpleCommitter.feed(text)
Feed(text) ==
    \E r \in {feed(commit_config, CommitterState, text)} :
        /\ _history' = r.history
        /\ _committed' = r.committed
        /\ c_op' = "feed"
        /\ c_text' = strip(text)
        /\ c_delta' = r.delta
        /\ c_drift' = (c_drift \/ r.truncated)
        /\ c_acc' = IF c_drift \/ r.truncated THEN <<>> ELSE c_acc \o r.delta
        /\ c_chain' = ExtendsChain(text)
        /\ c_recent' = IF ExtendsChain(text) THEN LastN(Append(c_recent, text), MaxHistoryLen) ELSE <<>>
        /\ UNCHANGED <<commit_config, parser_vars, worker_vars, rest_vars>>

\* SimpleCommitter.finalize(text)
Finalize(text) ==
    \E r \in {finalize(commit_config, CommitterState, text)} :
        /\ _history' = r.history
        /\ _committed' = r.committed
        /\ c_op' = "finalize"
        /\ c_text' = strip(text)
        /\ c_delta' = r.delta
        /\ c_drift' = TRUE
        /\ c_acc' = <<>>
        /\ c_chain' = FALSE
        /\ c_recent' = <<>>
        /\ UNCHANGED <<commit_config, parser_vars, worker_vars, rest_vars>>

FeedNext ==
    \/ Reset
    \/ \E text \in Texts : Feed(text)

CommitNext ==
    \/ Reset
    \/ \E text \in Texts : Feed(text)
    \/ \E text \in Texts : Finalize(text)

-----------------------------------------------------------------------------
(* net/protocol.py *)

\* StreamParser(max_payload=MaxPayload): the parser of the model is built with
\* a small max_payload (the program passes 4096)
MaxPayload == 2

\* the streams hold at most MaxPkts packets
MaxPkts == 2

\* the junk a stream begins with is at most MaxJunk bytes long
MaxJunk == 9

HDR_SIZE == 8
MAGIC == 170
VERSION == 1
MSG_TYPE_AUDIO == 1
MSG_TYPE_TEXT == 2

\* struct.pack("!I", n): 32 bits, big-endian
U32BE(n) ==
    <<(n \div 16777216) % 256, (n \div 65536) % 256, (n \div 256) % 256, n % 256>>

\* struct.pack("<I", n): 32 bits, little-endian
U32LE(n) ==
    <<n % 256, (n \div 256) % 256, (n \div 65536) % 256, (n \div 16777216) % 256>>

pack_header_le(msg_type, flags, payload_len) ==
    <<MAGIC, VERSION, msg_type, flags>> \o U32LE(payload_len)

pack_header(msg_type, flags, payload_len) ==
    <<MAGIC, VERSION, msg_type, flags>> \o U32BE(payload_len)

build_packet(msg_type, flags, payload) ==
    pack_header(msg_type, flags, Len(payload)) \o payload

\* struct.unpack(HDR_FMT, buf[:HDR_SIZE]): the payload_len field (the model
\* evaluates it only under a valid magic and version; the streams of the model
\* keep it below 2^31)
unpack_payload_len(buf) ==
    buf[5] * 16777216 + buf[6] * 65536 + buf[7] * 256 + buf[8]

Packet(msg_type, flags, payload) ==
    [msg_type |-> msg_type, flags |-> flags, payload |-> payload]

\* a resync that keeps the buffer
ResyncKeep(buf) == buf

\* the resync strategy: self._buf.clear()
Resync(buf) == <<>>

\* an oversized frame of which only the header is dropped
DiscardHeaderOnly(buf, payload_len) == Drop(buf, HDR_SIZE)

\* feed, line 62: del self._buf[:HDR_SIZE + payload_len]
DiscardOversized(buf, payload_len) == Drop(buf, HDR_SIZE + payload_len)

\* the while loop of StreamParser.feed on the buffer buf with out returned so far
RECURSIVE ParseLoop(_, _, _)
ParseLoop(buf, out, max_payload) ==
    IF Len(buf) < HDR_SIZE THEN [buf |-> buf, out |-> out]
    ELSE IF buf[1] # MAGIC \/ buf[2] # VERSION
    THEN [buf |-> Resync(buf), out |-> out]
    ELSE LET msg_type    == buf[3]
             flags       == buf[4]
             payload_len == unpack_payload_len(buf)
         IN  IF payload_len > max_payload
             THEN IF Len(buf) < HDR_SIZE + payload_len
                  THEN [buf |-> buf, out |-> out]
                  ELSE ParseLoop(DiscardOversized(buf, payload_len), out, max_payload)
             ELSE IF Len(buf) < HDR_SIZE + payload_len
             THEN [buf |-> buf, out |-> out]
             ELSE ParseLoop(Drop(buf, HDR_SIZE + payload_len),
                            Append(out, Packet(msg_type, flags,
                                               SubSeq(buf, HDR_SIZE + 1, HDR_SIZE + payload_len))),
                            max_payload)

\* a feed that forgets the bytes buffered by the calls before
parser_feed_unbuffered(buf, data, max_payload) == ParseLoop(data, <<>>, max_payload)

\* StreamParser.feed(data) on the buffer buf
parser_feed(buf, data, max_payload) == ParseLoop(buf \o data, <<>>, max_payload)

\* The streams fed to the parser
MsgTypes == {MSG_TYPE_AUDIO, MSG_TYPE_TEXT}
FlagVals == {4, 255}

\* payload bytes that look like the start of a header
PayloadByte(i) == IF i % 2 = 1 THEN MAGIC ELSE VERSION
Payloads == {[i \in 1..n |-> PayloadByte(i)] : n \in 0..MaxPayload}

ValidPackets == {Packet(t, f, p) : t \in MsgTypes, f \in FlagVals, p \in Payloads}

PacketLists == UNION {[1..n -> ValidPackets] : n \in 0..MaxPkts}

\* junk: bytes that do not begin a valid header (bad magic, or bad version)
JunkBadMagic(n) == [i \in 1..n |-> IF i = 1 THEN 0 ELSE PayloadByte(i - 1)]
JunkBadVersion(n) == [i \in 1..n |-> IF i = 2 THEN 0 ELSE PayloadByte(i)]
Junk == {JunkBadMagic(n) : n \in 1..MaxJunk} \cup {JunkBadVersion(n) : n \in 2..MaxJunk}

\* frames whose header is valid and whose payload_len exceeds max_payload, and
\* frame lists that hold at least one of them
OversizedFrames ==
    {Packet(MSG_TYPE_AUDIO, f, [i \in 1..(MaxPayload + 1) |-> PayloadByte(i)]) : f \in FlagVals}

SmallPackets == {Packet(t, 4, p) : t \in MsgTypes, p \in Payloads}

OversizedLists ==
    {l \in UNION {[1..n -> SmallPackets \cup OversizedFrames] : n \in 1..MaxPkts} :
        \E i \in 1..Len(l) : l[i] \in OversizedFrames}

RECURSIVE Encode(_)
Encode(pkts) ==
    IF pkts = <<>> THEN <<>>
    ELSE build_packet(pkts[1].msg_type, pkts[1].flags, pkts[1].payload) \o Encode(Tail(pkts))

\* StreamParser.__init__, and the stream it is going to be fed
ParserInit(junks, lists) ==
    /\ _buf = <<>>
    /\ p_junk \in junks
    /\ p_sent \in lists
    /\ wire = p_junk \o Encode(p_sent)
    /\ p_out = <<>>
    /\ p_all = <<>>
    /\ p_fed = 0
    /\ p_calls = 0

\* StreamParser.feed(data), data being the next n bytes of the stream
ParserFeed(n) ==
    /\ n \in 1..Len(wire)
    /\ \E r \in {parser_feed(_buf, Take(wire, n), MaxPayload)} :
        /\ _buf' = r.buf
        /\ p_out' = r.out
        /\ p_all' = p_all \o r.out
    /\ wire' = Drop(wire, n)
    /\ p_fed' = p_fed + n
    /\ p_calls' = Min(p_calls + 1, 2)
    /\ UNCHANGED <<p_junk, p_sent, commit_vars, worker_vars, rest_vars>>

\* any split of the stream into consecutive slices
ParserNext == \E n \in 1..Len(wire) : ParserFeed(n)

\* the junk in one call and the rest in the next, or everything in one call
ResyncNext ==
    \E n \in (IF p_fed = 0 THEN {Len(p_junk), Len(wire)} ELSE {Len(wire)}) : ParserFeed(n)

-----------------------------------------------------------------------------
(* pipeline/coordinator.py: the worker thread and its two queues *)

\* PipelineConfig.lang1_label, lang2_label
Langs == {"lang1", "lang2"}

\* int(min_window_seconds * sample_rate): the samples a window needs before ASR runs
MinWindowSamples == 2
\* int(window_seconds * sample_rate): the samples handed to ASR
WindowSamples == 2
\* int(max_buffer_seconds * sample_rate): the capacity of the ring buffer
MaxBufferSamples == 3
\* min_window_seconds in periods of the 0.1 s dequeue timeout
MinWindowTicks == 2
\* RateLimiter.period in periods of the dequeue timeout
StepTicks == 2
\* the sample counts of the chunks the coordinator puts
ChunkSizes == {1, 2}
\* audio_q maxsize (200 in the program)
MaxQueue == 2
\* the worker waits for the drain while tx_q holds more than MaxTx - 2 items
MaxTx == 2

Max(a, b) == IF a >= b THEN a ELSE b

\* the outcome of an engine call that raised
RAISED == <<-1>>

\* WhisperEngine.transcribe returns "".join(parts).strip(), or raises
AsrOutcomes == {<<>>, <<1>>, <<1, 1>>, RAISED}

\* _CT2Model.translate returns the decoded hypothesis, or raises
MtOutcomes == {<<>>, <<1>>, RAISED}

\* AudioChunk(samples, lang)
AudioChunk(lang, n) == [lang |-> lang, samples |-> [i \in 1..n |-> lang]]

\* an append that keeps the oldest samples when the buffer overflows
append_keep_oldest(data, samples, max_samples) ==
    IF samples = <<>> THEN data ELSE Take(data \o samples, max_samples)

\* FloatRingBuffer.append on a buffer of capacity max_samples
append(data, samples, max_samples) ==
    IF samples = <<>> THEN data ELSE LastN(data \o samples, max_samples)

\* FloatRingBuffer.append on the worker's buffer
RingAppend(data, samples) == append(data, samples, Max(1, MaxBufferSamples))

\* FloatRingBuffer.get_last: data[-count:] is the whole of data when count is 0
get_last(data, count) ==
    IF data = <<>> THEN <<>>
    ELSE IF Len(data) <= count THEN data
    ELSE IF count = 0 THEN data
    ELSE LastN(data, count)

\* WhisperEngine.transcribe(audio, language), asr being what the model returns
transcribe(audio, asr) == IF audio = <<>> THEN <<>> ELSE asr

\* OpusMTTranslator.translate(text, src_lang), mt being what the model returns
translate(text, mt) == IF strip(text) = <<>> THEN <<>> ELSE mt

ResetCommitter == [history |-> <<>>, committed |-> <<>>]

NoFlush == [ran |-> FALSE, translated |-> <<>>]

\* The worker as a value while one iteration of run executes
WorkerState ==
    [buffer |-> buffer, current_lang |-> current_lang, committer |-> CommitterState,
     rate_wait |-> rate_wait, put |-> <<>>, alive |-> TRUE, flush |-> NoFlush,
     since_asr |-> since_asr, asr_gap |-> StepTicks]

\* time passes: ticks poll periods go by before the iteration acts
Elapse(w, ticks) ==
    [w EXCEPT !.rate_wait = Max(0, @ - ticks), !.since_asr = Min(@ + ticks, StepTicks)]

\* a call of _transcribe_window, w.since_asr after the call before it
NoteAsr(w) == [w EXCEPT !.asr_gap = Min(@, w.since_asr), !.since_asr = 0]

\* PipelineWorker._transcribe_window
_transcribe_window(w, asr) == transcribe(get_last(w.buffer, WindowSamples), asr)

\* _process_text, lines 103-105: feed, and finalize on top of it when asked
AddDelta(delta, z) ==
    [history |-> z.history, committed |-> z.committed, delta |-> delta \o z.delta]

FinalizeAfterFeed(f, text, fin) ==
    IF fin
    THEN AddDelta(f.delta,
                  finalize(commit_config, [history |-> f.history, committed |-> f.committed], text))
    ELSE [history |-> f.history, committed |-> f.committed, delta |-> f.delta]

\* _process_text, lines 106-112: translate the delta c.delta and put the translation
PutTranslation(w, c, translated, src_lang, fin) ==
    IF c.delta = <<>> THEN [w EXCEPT !.committer = [history |-> c.history, committed |-> c.committed]]
    ELSE IF translated = RAISED
    THEN [w EXCEPT !.committer = [history |-> c.history, committed |-> c.committed],
                   !.alive = FALSE]
    ELSE IF translated = <<>>
    THEN [w EXCEPT !.committer = [history |-> c.history, committed |-> c.committed]]
    ELSE [w EXCEPT !.committer = [history |-> c.history, committed |-> c.committed],
                   !.put = Append(@, [text |-> translated, lang |-> src_lang]),
                   !.flush = IF fin THEN [@ EXCEPT !.translated = translated] ELSE @]

TranslateDelta(w, c, src_lang, fin, mt) ==
    PutTranslation(w, c, translate(c.delta, mt), src_lang, fin)

\* PipelineWorker._process_text
_process_text(w, text, src_lang, fin, mt) ==
    TranslateDelta(w, FinalizeAfterFeed(feed(commit_config, w.committer, text), text, fin),
                   src_lang, fin, mt)

\* _process_text(text, src_lang, finalize=True), lines 103-105, as _flush calls
\* it on the committer: text is what transcribe returned, stripped and not empty
ProcessFinal(text) ==
    /\ text # <<>> /\ text = strip(text)
    /\ \E r \in {FinalizeAfterFeed(feed(commit_config, CommitterState, text), text, TRUE)} :
           /\ _history' = r.history
           /\ _committed' = r.committed
           /\ c_delta' = r.delta
    /\ c_op' = "flush"
    /\ c_text' = text
    /\ c_drift' = TRUE
    /\ c_acc' = <<>>
    /\ c_chain' = FALSE
    /\ c_recent' = <<>>
    /\ UNCHANGED <<commit_config, parser_vars, worker_vars, rest_vars>>

\* the committer between resets: rolling-window feeds and the feed and finalize
\* of a flush
ProcessNext ==
    \/ Reset
    \/ \E text \in Texts : Feed(text)
    \/ \E text \in Texts : ProcessFinal(text)

\* a flush that clears the ring buffer and leaves the committer as it is
ClearOnly(p) ==
    IF ~p.alive THEN p ELSE [p EXCEPT !.buffer = <<>>]

\* _flush, lines 120-121, reached only when no call raised
ClearAndReset(p) ==
    IF ~p.alive THEN p ELSE [p EXCEPT !.buffer = <<>>, !.committer = ResetCommitter]

\* _flush, lines 118-121
FlushText(w, text, mt) ==
    IF text = RAISED THEN [w EXCEPT !.alive = FALSE]
    ELSE IF text # <<>>
    THEN ClearAndReset(_process_text([w EXCEPT !.flush = [ran |-> TRUE, translated |-> <<>>]],
                                     text, w.current_lang, TRUE, mt))
    ELSE ClearAndReset([w EXCEPT !.flush = [ran |-> TRUE, translated |-> <<>>]])

\* PipelineWorker._flush
_flush(w, asr, mt) ==
    IF Len(w.buffer) = 0 THEN w ELSE FlushText(NoteAsr(w), _transcribe_window(w, asr), mt)

\* run, line 138
SetLang(f, lang) == IF f.alive THEN [f EXCEPT !.current_lang = lang] ELSE f

\* run, lines 135-138, with the flush left out
SwitchNoFlush(w, chunk, asr, mt) ==
    IF chunk.lang # w.current_lang THEN SetLang(w, chunk.lang) ELSE w

\* run, lines 135-138: a chunk of another language flushes the window first
SwitchFlush(w, chunk, asr, mt) ==
    IF chunk.lang # w.current_lang THEN SetLang(_flush(w, asr, mt), chunk.lang) ELSE w

\* run, lines 143-145
StepText(r, text, mt) ==
    IF text = RAISED THEN [r EXCEPT !.alive = FALSE]
    ELSE IF text # <<>> THEN _process_text(r, text, r.current_lang, FALSE, mt)
    ELSE r

\* run, lines 141-145: enough and self.rate.allow()
StepWindow(a, asr, mt) ==
    IF Len(a.buffer) >= MinWindowSamples /\ a.rate_wait = 0
    THEN StepText(NoteAsr([a EXCEPT !.rate_wait = StepTicks]), _transcribe_window(a, asr), mt)
    ELSE a

\* run, lines 140-145: append the chunk and run the rolling-window step
RollingStep(w, chunk, asr, mt) ==
    StepWindow([w EXCEPT !.buffer = RingAppend(w.buffer, chunk.samples)], asr, mt)

NoMid == [appended |-> FALSE, buffer |-> <<>>, committer |-> ResetCommitter, nput |-> 0]

\* PipelineWorker.__init__, and the queues of Coordinator.__init__
WorkerInitWith(queues) ==
    /\ audio_q = <<>>
    /\ tx_q \in queues
    /\ buffer = <<>>
    /\ current_lang = "lang1"
    /\ since_audio = 0
    /\ rate_wait = 0
    /\ w_alive = TRUE
    /\ w_event = "init"
    /\ w_prev_lang = "lang1"
    /\ w_had_audio = FALSE
    /\ w_flush = NoFlush
    /\ w_mid = NoMid
    /\ w_put = <<>>
    /\ w_raised = FALSE
    /\ q_dropped = FALSE
    /\ since_asr = StepTicks
    /\ w_asr_gap = StepTicks
    /\ w_started = FALSE
    /\ w_after_stop = 0

WorkerInit == WorkerInitWith({<<>>})

\* Coordinator.__init__, line 151, and start before its loop
StopInit ==
    /\ stop = FALSE
    /\ c_pc = "loop"
    /\ joined = FALSE

\* Coordinator.start, line 184: the loop runs another iteration
InLoop == c_pc = "loop" /\ ~stop

\* a loop that does not look at the stop flag
loop_forever(alive, stopped) == alive

\* run, line 125: while not self.stop.is_set(), in a thread that is alive
loop_test(alive, stopped) == alive /\ ~stopped

\* what an iteration that ended in the worker value w leaves behind, the test
\* of the stop flag that follows it included: the worker rests in audio_q.get
WorkerLeaves(w) ==
    /\ buffer' = w.buffer
    /\ current_lang' = w.current_lang
    /\ _history' = w.committer.history
    /\ _committed' = w.committer.committed
    /\ rate_wait' = w.rate_wait
    /\ w_alive' = loop_test(w.alive, stop)
    /\ tx_q' = tx_q \o w.put
    /\ w_put' = w.put
    /\ w_raised' = ~w.alive
    /\ since_asr' = w.since_asr
    /\ w_asr_gap' = w.asr_gap
    /\ w_after_stop' = Min(w_after_stop + (IF stop THEN 1 ELSE 0), 2)
    /\ UNCHANGED w_started
    /\ w_flush' = w.flush
    /\ w_prev_lang' = current_lang
    /\ w_had_audio' = (buffer # <<>>)
    /\ UNCHANGED <<commit_config, c_op, c_text, c_delta, c_acc, c_drift, c_chain, c_recent,
                   parser_vars, rest_vars>>

\* run, lines 124-125: the thread started by Coordinator.start makes its first
\* test of the stop flag
WorkerStarts ==
    /\ w_alive /\ ~w_started
    /\ w_started' = TRUE
    /\ w_alive' = loop_test(w_alive, stop)
    /\ w_event' = IF stop THEN "stopped" ELSE w_event
    /\ UNCHANGED <<audio_q, tx_q, buffer, current_lang, since_audio, rate_wait, w_prev_lang,
                   w_had_audio, w_flush, w_mid, w_put, w_raised, q_dropped, since_asr,
                   w_asr_gap, w_after_stop, commit_vars, parser_vars, rest_vars>>

\* run: audio_q.get times out after one poll period (lines 127-132)
WorkerTimeout ==
    /\ w_alive /\ w_started
    /\ audio_q = <<>>
    /\ buffer = <<>> \/ Len(tx_q) + 2 <= MaxTx
    /\ LET elapsed == Min(since_audio + 1, MinWindowTicks)
           due == buffer # <<>> /\ elapsed >= MinWindowTicks
           w0 == Elapse(WorkerState, 1)
       IN  /\ since_audio' = elapsed
           /\ \E asr \in (IF due THEN AsrOutcomes ELSE {<<>>}) :
              \E mt \in (IF due /\ asr \notin {<<>>, RAISED} THEN MtOutcomes ELSE {<<>>}) :
              \E w \in {IF due THEN _flush(w0, asr, mt) ELSE w0} :
                  /\ WorkerLeaves(w)
                  /\ w_event' = IF due /\ w.alive THEN "idle_flush" ELSE "timeout"
           /\ w_mid' = NoMid
           /\ UNCHANGED <<audio_q, q_dropped>>

\* run: audio_q.get returns a chunk (lines 127, 134-145)
WorkerChunk ==
    /\ w_alive /\ w_started
    /\ audio_q # <<>>
    /\ Len(tx_q) + 2 <= MaxTx
    /\ LET chunk == Head(audio_q)
           switch == chunk.lang # current_lang
           flushes == switch /\ buffer # <<>>
       IN  \E waited \in 0..1 :
           \E asr1 \in (IF flushes THEN AsrOutcomes ELSE {<<>>}) :
           \E mt1 \in (IF flushes /\ asr1 \notin {<<>>, RAISED} THEN MtOutcomes ELSE {<<>>}) :
           \E f \in {SwitchFlush(Elapse(WorkerState, waited), chunk, asr1, mt1)} :
           \E asr2 \in (IF f.alive THEN AsrOutcomes ELSE {<<>>}) :
           \E mt2 \in (IF f.alive /\ asr2 \notin {<<>>, RAISED} THEN MtOutcomes ELSE {<<>>}) :
           \E w \in {IF f.alive THEN RollingStep(f, chunk, asr2, mt2) ELSE f} :
               /\ WorkerLeaves(w)
               /\ w_event' = IF switch THEN "switch" ELSE "chunk"
               /\ w_mid' = [appended |-> f.alive, buffer |-> f.buffer, committer |-> f.committer,
                            nput |-> Len(f.put)]
    /\ audio_q' = Tail(audio_q)
    /\ q_dropped' = FALSE
    /\ since_audio' = 0

WorkerStep == WorkerStarts \/ WorkerTimeout \/ WorkerChunk

\* a put that makes room for the new chunk by dropping the oldest
put_drop_oldest(q, chunk) ==
    IF Len(q) < MaxQueue THEN Append(q, chunk) ELSE Append(Tail(q), chunk)

\* audio_q.put_nowait(chunk) with the except queue.Full of lines 223-224
put_nowait(q, chunk) == IF Len(q) < MaxQueue THEN Append(q, chunk) ELSE q

\* Coordinator._poll_network, lines 221-224: put_nowait, the chunk dropped when the queue is full
EnqueueAudio ==
    /\ InLoop
    /\ \E lang \in Langs, n \in ChunkSizes : audio_q' = put_nowait(audio_q, AudioChunk(lang, n))
    /\ q_dropped' = (Len(audio_q) >= MaxQueue)
    /\ UNCHANGED <<tx_q, buffer, current_lang, since_audio, rate_wait, w_alive, w_event,
                   w_prev_lang, w_had_audio, w_flush, w_mid, w_put, w_raised,
                   since_asr, w_asr_gap, w_started, w_after_stop,
                   commit_vars,
                   parser_vars,
                   rest_vars>>

\* str.encode("utf-8") of one codepoint below 0x10000
utf8(cp) ==
    IF cp < 128 THEN <<cp>>
    ELSE IF cp < 2048 THEN <<192 + (cp \div 64), 128 + (cp % 64)>>
    ELSE <<224 + (cp \div 4096), 128 + ((cp \div 64) % 64), 128 + (cp % 64)>>

\* text.encode("utf-8"), text being a sequence of codepoints
RECURSIVE encode(_)
encode(text) == IF text = <<>> THEN <<>> ELSE utf8(Head(text)) \o encode(Tail(text))

\* a split that leaves out the last chunk when it is shorter than size
RECURSIVE chunk_whole(_, _)
chunk_whole(data, size) ==
    IF Len(data) < size THEN <<>>
    ELSE <<Take(data, size)>> \o chunk_whole(Drop(data, size), size)

\* _chunk_bytes(data, size): data[i:i + size] for i in range(0, len(data), size)
RECURSIVE _chunk_bytes(_, _)
_chunk_bytes(data, size) ==
    IF data = <<>> THEN <<>>
    ELSE <<Take(data, size)>> \o _chunk_bytes(Drop(data, size), size)

FLAG_LANG1_OUT == 4
FLAG_LANG2_OUT == 8

\* _output_flag(lang, lang1, lang2)
_output_flag(lang) == IF lang = "lang1" THEN FLAG_LANG1_OUT ELSE FLAG_LANG2_OUT

\* _drain_tx, line 232
out_lang(src_lang) == IF src_lang = "lang1" THEN "lang2" ELSE "lang1"

\* _drain_tx, lines 232-244: the packets of one (text, src_lang) item
TextPackets(item, m) ==
    LET chunks == _chunk_bytes(encode(item.text), m)
    IN  [i \in 1..Len(chunks) |->
            build_packet(MSG_TYPE_TEXT, _output_flag(out_lang(item.lang)), chunks[i])]

\* a drain that takes the newest item first
RECURSIVE drain_lifo(_, _, _, _)
drain_lifo(q, sent, n, m) ==
    IF q = <<>> THEN [q |-> q, sent |-> sent, failed |-> FALSE]
    ELSE IF n >= Len(TextPackets(q[Len(q)], m))
    THEN drain_lifo(SubSeq(q, 1, Len(q) - 1), sent \o TextPackets(q[Len(q)], m),
                    n - Len(TextPackets(q[Len(q)], m)), m)
    ELSE [q |-> SubSeq(q, 1, Len(q) - 1), sent |-> sent \o Take(TextPackets(q[Len(q)], m), n),
          failed |-> TRUE]

\* _drain_tx on the queue q, the first n sends succeeding and the next failing
RECURSIVE drain(_, _, _, _)
drain(q, sent, n, m) ==
    IF q = <<>> THEN [q |-> q, sent |-> sent, failed |-> FALSE]
    ELSE IF n >= Len(TextPackets(Head(q), m))
    THEN drain(Tail(q), sent \o TextPackets(Head(q), m), n - Len(TextPackets(Head(q), m)), m)
    ELSE [q |-> Tail(q), sent |-> sent \o Take(TextPackets(Head(q), m), n), failed |-> TRUE]

\* the number of packets the items of q make
RECURSIVE PacketCount(_, _)
PacketCount(q, m) ==
    IF q = <<>> THEN 0 ELSE Len(TextPackets(Head(q), m)) + PacketCount(Tail(q), m)

\* the largest text_max_payload (128 in the program)
MaxTextPayload == 3
\* the most items in tx_q when a drain begins
MaxDrainItems == 2

\* translations: 1, 2 and 3 byte codepoints
DrainTexts == {<<97>>, <<233>>, <<97, 233>>, <<8364, 97>>, <<97, 233, 97, 8364>>}

DrainItems == [text : DrainTexts, lang : Langs]

DrainQueues == UNION {[1..n -> DrainItems] : n \in 1..MaxDrainItems}

\* TCPServer.__init__ and the configuration of the drain
TxInit(payloads) ==
    /\ conn = FALSE
    /\ text_max_payload \in payloads
    /\ d_items = <<>>
    /\ d_sent = <<>>
    /\ d_failed = FALSE

\* Coordinator._drain_tx as the worker sees it: items leave tx_q from the head,
\* until it is empty or a send fails
DrainTx ==
    /\ InLoop
    /\ tx_q # <<>>
    /\ \E k \in 1..Len(tx_q) : tx_q' = Drop(tx_q, k)
    /\ UNCHANGED <<audio_q, buffer, current_lang, since_audio, rate_wait, w_alive, w_event,
                   w_prev_lang, w_had_audio, w_flush, w_mid, w_put, w_raised, q_dropped,
                   since_asr, w_asr_gap, w_started, w_after_stop,
                   commit_vars,
                   parser_vars,
                   rest_vars>>

\* a send that gives up the connection when the write fails
send_closing(c, ok) == [result |-> c /\ ok, conn |-> c /\ ok]

\* TCPServer.send(data): False without a connection and when sendall raises
\* OSError (ok is FALSE); self.conn is not touched
send(c, ok) == [result |-> c /\ ok, conn |-> c]

\* Coordinator._drain_tx with what it sends: TCPServer.send returns False when
\* there is no connection, and when sendall raises OSError
DrainTxSend ==
    /\ InLoop
    /\ tx_q # <<>>
    /\ \E n \in (IF conn THEN 0..PacketCount(tx_q, text_max_payload) ELSE {0}) :
       \E r \in {drain(tx_q, <<>>, n, text_max_payload)} :
           /\ tx_q' = r.q
           /\ d_sent' = r.sent
           /\ d_failed' = r.failed
           /\ conn' = IF r.failed THEN send(conn, FALSE).conn ELSE send(conn, TRUE).conn
    /\ d_items' = tx_q
    /\ UNCHANGED text_max_payload
    /\ UNCHANGED <<audio_q, buffer, current_lang, since_audio, rate_wait, w_alive, w_event,
                   w_prev_lang, w_had_audio, w_flush, w_mid, w_put, w_raised, q_dropped,
                   since_asr, w_asr_gap, w_started, w_after_stop,
                   commit_vars,
                   parser_vars,
                   ring_vars, stop_vars, dec_vars, ingest_vars, tcp_vars>>

\* TCPServer.poll, lines 37-45: a client is accepted, the connection before it closed
ClientConnect ==
    /\ InLoop
    /\ conn' = TRUE
    /\ UNCHANGED <<text_max_payload, d_items, d_sent, d_failed, commit_vars, parser_vars,
                   worker_vars, ring_vars, stop_vars, dec_vars, ingest_vars, tcp_vars>>

\* TCPServer.poll, lines 56-62: the client has gone
ClientDisconnect ==
    /\ InLoop
    /\ conn
    /\ conn' = FALSE
    /\ UNCHANGED <<text_max_payload, d_items, d_sent, d_failed, commit_vars, parser_vars,
                   worker_vars, ring_vars, stop_vars, dec_vars, ingest_vars, tcp_vars>>

\* Coordinator.start, lines 187-189: KeyboardInterrupt in the loop; stop is set
\* and start returns
Interrupt ==
    /\ c_pc = "loop"
    /\ stop' = TRUE
    /\ c_pc' = "interrupted"
    /\ UNCHANGED <<joined, commit_vars, parser_vars, worker_vars, ring_vars, tx_vars,
                   dec_vars, ingest_vars, tcp_vars>>

\* Coordinator.start, lines 190-193: an exception in the loop; stop is set and
\* the exception raised again
Crash ==
    /\ c_pc = "loop"
    /\ stop' = TRUE
    /\ c_pc' = "raised"
    /\ UNCHANGED <<joined, commit_vars, parser_vars, worker_vars, ring_vars, tx_vars,
                   dec_vars, ingest_vars, tcp_vars>>

\* main, lines 110-111: in plot mode the closing plotter sets stop
PlotterClose ==
    /\ ~stop
    /\ stop' = TRUE
    /\ UNCHANGED <<c_pc, joined, commit_vars, parser_vars, worker_vars, ring_vars, tx_vars,
                   dec_vars, ingest_vars, tcp_vars>>

\* Coordinator.start, line 184: the loop finds the stop flag set and start returns
LoopExit ==
    /\ c_pc = "loop" /\ stop
    /\ c_pc' = "returned"
    /\ UNCHANGED <<stop, joined, commit_vars, parser_vars, worker_vars, ring_vars, tx_vars,
                   dec_vars, ingest_vars, tcp_vars>>

\* the program shutting down while no audio arrives
ShutdownNext ==
    \/ WorkerTimeout
    \/ WorkerStarts
    \/ DrainTxSend
    \/ ClientConnect
    \/ ClientDisconnect
    \/ Interrupt
    \/ Crash
    \/ PlotterClose
    \/ LoopExit

WorkerNext ==
    \/ WorkerStarts
    \/ WorkerTimeout
    \/ WorkerChunk
    \/ EnqueueAudio
    \/ DrainTx

\* the coordinator draining a queue of translations, clients coming and going
DrainNext ==
    \/ DrainTxSend
    \/ ClientConnect
    \/ ClientDisconnect

-----------------------------------------------------------------------------
(* audio/ringbuffer.py: a ring buffer on its own *)

\* the most samples appended between two clears
MaxAppended == 5
\* the largest max_samples given to the constructor
MaxCapacity == 3
\* the most samples in one append, and the largest count asked of get_last
MaxAppendLen == 2
MaxCount == 4

SampleVals == {1, 2}
SampleRuns == UNION {[1..n -> SampleVals] : n \in 0..MaxAppendLen}

\* FloatRingBuffer.__init__(max_samples): self._max_samples = max(1, int(max_samples))
RingInit(capacities) ==
    /\ \E c \in capacities : _max_samples = Max(1, c)
    /\ _data = <<>>
    /\ r_all = <<>>
    /\ r_op = "init"
    /\ r_count = 0
    /\ r_ret = <<>>

\* FloatRingBuffer.append(samples)
AppendSamples(samples) ==
    /\ Len(r_all) + Len(samples) <= MaxAppended
    /\ _data' = append(_data, samples, _max_samples)
    /\ r_all' = r_all \o samples
    /\ r_op' = "append"
    /\ UNCHANGED <<_max_samples, r_count, r_ret, commit_vars, parser_vars, worker_vars, tx_vars,
                   stop_vars, dec_vars, ingest_vars, tcp_vars>>

\* FloatRingBuffer.clear()
Clear ==
    /\ _data' = <<>>
    /\ r_all' = <<>>
    /\ r_op' = "clear"
    /\ UNCHANGED <<_max_samples, r_count, r_ret, commit_vars, parser_vars, worker_vars, tx_vars,
                   stop_vars, dec_vars, ingest_vars, tcp_vars>>

\* FloatRingBuffer.get_last(count)
GetLast(count) ==
    /\ r_ret' = get_last(_data, count)
    /\ r_count' = count
    /\ r_op' = "get_last"
    /\ UNCHANGED <<_data, _max_samples, r_all, commit_vars, parser_vars, worker_vars, tx_vars,
                   stop_vars, dec_vars, ingest_vars, tcp_vars>>

RingNext ==
    \/ \E samples \in SampleRuns : AppendSamples(samples)
    \/ Clear
    \/ \E count \in 0..MaxCount : GetLast(count)

\* the parts below the worker, as constructed
-----------------------------------------------------------------------------
(* audio/format.py: decode_packed_24bit_stereo_to_mono *)

SAMPLE_BYTES == 3

\* the most packed samples in a payload
MaxDecSamples == 4

\* a read of the three bytes with the most significant byte first
int24_be(s) == s[3] + s[2] * 256 + s[1] * 65536

\* lines 20-22: data[:, 0] | data[:, 1] << 8 | data[:, 2] << 16
int24(s) == s[1] + s[2] * 256 + s[3] * 65536

\* lines 23-24: vals[neg] -= 1 << 24 where vals & 0x800000 is not zero
sign24(v) == IF (v \div 2^23) % 2 = 1 THEN v - 2^24 ELSE v

\* lines 13-24: the payload trimmed to whole samples, one value for each
vals(p) ==
    [k \in 1..(Len(p) \div SAMPLE_BYTES) |->
        sign24(int24(SubSeq(p, SAMPLE_BYTES * (k - 1) + 1, SAMPLE_BYTES * k)))]

\* lines 26-36 for two channels, in halves of a sample value: the mean of a
\* frame is half the sum of its columns
mono2(v, select) ==
    [i \in 1..(Len(v) \div 2) |->
        IF select = "right" THEN 2 * v[2 * i]
        ELSE IF select = "mix" THEN v[2 * i - 1] + v[2 * i]
        ELSE 2 * v[2 * i - 1]]

\* lines 26-36
mono(v, ch, select) == IF ch > 1 THEN mono2(v, select) ELSE [i \in 1..Len(v) |-> 2 * v[i]]

\* astype(np.float32): 24 significant bits, ties to even, h a count of equal
\* power-of-two units below 2^25 in magnitude
float32(h) ==
    IF h < 0 - 2^24 \/ h > 2^24
    THEN (IF h % 4 = 3 THEN h + 1 ELSE IF h % 4 = 1 THEN h - 1 ELSE h)
    ELSE h

\* decode_packed_24bit_stereo_to_mono; line 38 divides by float(1 << 23), which
\* turns the halves of a sample value into units of 2^-24
decode_packed_24bit_stereo_to_mono(p, ch, select) ==
    IF Len(p) < SAMPLE_BYTES THEN <<>>
    ELSE [i \in 1..Len(mono(vals(p), ch, select)) |-> float32(mono(vals(p), ch, select)[i])]

\* samples: zero, the largest, the smallest, and values that tell the byte
\* order and the sign apart
DecTriples == {<<0, 0, 0>>, <<255, 255, 127>>, <<0, 0, 128>>, <<0, 1, 0>>, <<255, 255, 255>>}

RECURSIVE Flatten(_)
Flatten(ss) == IF ss = <<>> THEN <<>> ELSE Head(ss) \o Flatten(Tail(ss))

\* up to MaxDecSamples packed samples and up to two bytes of a cut sample
DecPayloads ==
    {Flatten(ss) \o t : ss \in UNION {[1..n -> DecTriples] : n \in 0..MaxDecSamples},
                        t \in {<<>>, <<255>>, <<0, 128>>}}

DecChannels == {1, 2}

DecSelects == {"left", "right", "mix"}

DecodeInit(payloads) ==
    /\ dec_payload \in payloads
    /\ dec_channels \in (IF payloads = {<<>>} THEN {2} ELSE DecChannels)
    /\ dec_select \in (IF payloads = {<<>>} THEN {"left"} ELSE DecSelects)
    /\ dec_called = FALSE
    /\ dec_out = <<>>

\* a call of the decoder, as in Coordinator._poll_network line 215
Decode ==
    /\ ~dec_called
    /\ dec_called' = TRUE
    /\ dec_out' = decode_packed_24bit_stereo_to_mono(dec_payload, dec_channels, dec_select)
    /\ UNCHANGED <<dec_payload, dec_channels, dec_select, commit_vars, parser_vars, worker_vars,
                   ring_vars, tx_vars, stop_vars, ingest_vars, tcp_vars>>

DecodeNext ==
    \/ Decode

-----------------------------------------------------------------------------
(* pipeline/coordinator.py: Coordinator._poll_network, lines 199-224 *)

FLAG_LANG1_IN == 1
FLAG_LANG2_IN == 2

\* flags & bit, bit a power of two
HasFlag(flags, bit) == (flags \div bit) % 2 = 1

\* a choice of the language that tests bit 0x02 first
_flags_to_lang_2first(flags, current) ==
    IF HasFlag(flags, FLAG_LANG2_IN) THEN "lang2"
    ELSE IF HasFlag(flags, FLAG_LANG1_IN) THEN "lang1"
    ELSE current

\* _flags_to_lang(flags, current, lang1, lang2)
_flags_to_lang(flags, current) ==
    IF HasFlag(flags, FLAG_LANG1_IN) THEN "lang1"
    ELSE IF HasFlag(flags, FLAG_LANG2_IN) THEN "lang2"
    ELSE current

\* _lang_to_channel(lang, lang1, lang2)
_lang_to_channel(lang) ==
    IF lang = "lang1" THEN "left" ELSE IF lang = "lang2" THEN "right" ELSE "left"

\* an ingest that forgets the bytes carried over
drop_carry(c, pkt_payload) == pkt_payload

\* line 206: self.carry + pkt.payload
join_carry(c, pkt_payload) == c \o pkt_payload

\* a test that lets every packet through
any_type(pkt) == TRUE

\* line 200: the packet is not skipped
is_audio(pkt) == pkt.msg_type = MSG_TYPE_AUDIO

\* _poll_network processes at most MaxIngestPkts packets
MaxIngestPkts == 3

\* byte j of the audio stream the client sends
StreamByte(j) == (j * 83 + 5) % 256

\* the payload lengths of the AUDIO packets: every split of the stream into
\* runs of these lengths
IngestLens == {0, 1, 2, 4}

IngestFlags == {0, FLAG_LANG1_IN, FLAG_LANG2_IN, FLAG_LANG1_IN + FLAG_LANG2_IN}

\* the audio bytes of the packets ps, in order
RECURSIVE AudioBytes(_)
AudioBytes(ps) ==
    IF ps = <<>> THEN <<>>
    ELSE (IF Head(ps).msg_type = MSG_TYPE_AUDIO THEN Head(ps).payload ELSE <<>>)
             \o AudioBytes(Tail(ps))

\* the AUDIO packets that may come next: the next n bytes of the stream
NextAudio ==
    {Packet(MSG_TYPE_AUDIO, f, [k \in 1..n |-> StreamByte(Len(AudioBytes(i_pkts)) + k)]) :
        f \in IngestFlags, n \in IngestLens}

\* packets of another type, with language flags and payloads of their own
OtherPackets ==
    {Packet(MSG_TYPE_TEXT, f, p) : f \in {FLAG_LANG1_IN, FLAG_LANG2_IN},
                                  p \in {<<>>, <<9, 9, 9>>}}

NoChunk == [made |-> FALSE, payload |-> <<>>, channel |-> "left", lang |-> "lang1",
            samples |-> <<>>]

\* Coordinator.__init__, lines 168-169
IngestInit(chans) ==
    /\ co_current_lang = "lang1"
    /\ carry = <<>>
    /\ co_channels \in chans
    /\ i_pkts = <<>>
    /\ i_decoded = <<>>
    /\ i_chunk = NoChunk

\* lines 213-224: decode payload for the language lang and put the chunk
DecodeAndPut(bytes, lang) ==
    \E samples \in {decode_packed_24bit_stereo_to_mono(bytes, co_channels,
                                                       _lang_to_channel(lang))} :
        /\ i_decoded' = i_decoded \o bytes
        /\ i_chunk' = [made |-> samples # <<>>, payload |-> bytes,
                       channel |-> _lang_to_channel(lang), lang |-> lang, samples |-> samples]
        /\ IF samples = <<>> THEN UNCHANGED <<audio_q, q_dropped>>
           ELSE /\ audio_q' = put_nowait(audio_q, [lang |-> lang, samples |-> samples])
                /\ q_dropped' = (Len(audio_q) >= MaxQueue)

\* lines 207-208: frame_bytes and trim_len
trim_len(bytes) == Len(bytes) - (Len(bytes) % (3 * co_channels))

\* lines 203-212: the language of the packet, the carry and the whole frames
IngestAudio(pkt, lang, bytes) ==
    /\ co_current_lang' = lang
    /\ carry' = Drop(bytes, trim_len(bytes))
    /\ IF Take(bytes, trim_len(bytes)) = <<>>
       THEN /\ i_chunk' = NoChunk
            /\ UNCHANGED <<audio_q, q_dropped, i_decoded>>
       ELSE DecodeAndPut(Take(bytes, trim_len(bytes)), lang)

\* _poll_network, lines 199-224, for one packet the parser returned
IngestPacket(pkt) ==
    /\ InLoop
    /\ Len(i_pkts) < MaxIngestPkts
    /\ i_pkts' = Append(i_pkts, pkt)
    /\ IF is_audio(pkt)
       THEN IngestAudio(pkt, _flags_to_lang(pkt.flags, co_current_lang),
                        join_carry(carry, pkt.payload))
       ELSE /\ i_chunk' = NoChunk
            /\ UNCHANGED <<co_current_lang, carry, audio_q, q_dropped, i_decoded>>
    /\ UNCHANGED <<co_channels, tx_q, buffer, current_lang, since_audio, rate_wait, w_alive,
                   w_event, w_prev_lang, w_had_audio, w_flush, w_mid, w_put, w_raised,
                   since_asr, w_asr_gap, w_started, w_after_stop,
                   commit_vars, parser_vars, ring_vars, tx_vars,
                   stop_vars, dec_vars, tcp_vars>>

IngestNext ==
    \/ \E pkt \in NextAudio : IngestPacket(pkt)
    \/ \E pkt \in OtherPackets : IngestPacket(pkt)

-----------------------------------------------------------------------------
(* net/tcp_client.py: TCPServer, the sockets of the endpoint *)

\* the clients that connect in a run of the model
MaxClients == 3

\* listen(1): the backlog of the model holds two clients at most
Backlog == 2

NoPoll == [accepted |-> FALSE, closed |-> 0, recv |-> "none", data |-> FALSE, sent |-> "none"]

NoLeft == [sock |-> 0, buf |-> 0, carry |-> 0, pkts |-> 0, decoded |-> 0]

\* TCPServer.__init__, lines 24-28
TcpInit ==
    /\ srv_pending = 0
    /\ self_conn = 0
    /\ open_socks = {}
    /\ accepted = 0
    /\ peer = "quiet"
    /\ poll_did = NoPoll
    /\ left_over = NoLeft

\* an accept that leaves the connection before it open
accept_keep(socks, old, new) == socks \cup {new}

\* lines 38-42: the new socket is accepted, the connection before it closed
accept_replace(socks, old, new) == (socks \ {old}) \cup {new}

\* a client connects to the listening socket
ClientArrives ==
    /\ srv_pending < Backlog
    /\ accepted + srv_pending < MaxClients
    /\ srv_pending' = srv_pending + 1
    /\ UNCHANGED <<self_conn, open_socks, accepted, peer, poll_did, left_over>>
    /\ UNCHANGED <<commit_vars, parser_vars, worker_vars, ring_vars, tx_vars, stop_vars,
                   dec_vars, ingest_vars>>

\* the connected client sends bytes, closes, or its connection breaks
PeerActs ==
    /\ self_conn # 0
    /\ peer = "quiet"
    /\ peer' \in {"data", "eof", "error"}
    /\ UNCHANGED <<srv_pending, self_conn, open_socks, accepted, poll_did, left_over>>
    /\ UNCHANGED <<commit_vars, parser_vars, worker_vars, ring_vars, tx_vars, stop_vars,
                   dec_vars, ingest_vars>>

\* poll, lines 37-45, when the listening socket is readable
PollAccept ==
    /\ srv_pending' = srv_pending - 1
    /\ accepted' = accepted + 1
    /\ self_conn' = accepted + 1
    /\ open_socks' = accept_replace(open_socks, self_conn, accepted + 1)
    /\ peer' = "quiet"
    /\ poll_did' = [accepted |-> TRUE, closed |-> self_conn, recv |-> "none", data |-> FALSE, sent |-> "none"]

\* poll, lines 47-64, when only the connection is readable: one recv
PollRecv ==
    /\ UNCHANGED <<srv_pending, accepted>>
    /\ peer' = "quiet"
    /\ poll_did' = [accepted |-> FALSE, closed |-> IF peer = "data" THEN 0 ELSE self_conn,
                    recv |-> peer, data |-> peer = "data", sent |-> "none"]
    /\ IF peer = "data" THEN UNCHANGED <<self_conn, open_socks>>
       ELSE self_conn' = 0 /\ open_socks' = open_socks \ {self_conn}

\* TCPServer.poll: select on the listening socket and the connection. The
\* connection that accept made is not in readable, so nothing is received in
\* the call that accepts
PollSockets ==
    /\ IF srv_pending > 0 THEN PollAccept
       ELSE IF self_conn # 0 /\ peer # "quiet" THEN PollRecv
       ELSE /\ poll_did' = NoPoll
            /\ UNCHANGED <<srv_pending, self_conn, open_socks, accepted, peer>>
    /\ conn' = (self_conn' # 0)
    /\ left_over' = IF poll_did'.closed = 0 THEN left_over
                    ELSE [sock |-> poll_did'.closed, buf |-> Len(_buf), carry |-> Len(carry),
                          pkts |-> Len(p_all), decoded |-> Len(i_decoded)]
    /\ UNCHANGED <<text_max_payload, d_items, d_sent, d_failed>>

\* a poll whose caller does nothing with what it returns
Poll ==
    /\ PollSockets
    /\ UNCHANGED <<commit_vars, parser_vars, worker_vars, ring_vars, stop_vars, dec_vars,
                   ingest_vars>>

\* TCPServer.send on the sockets, lines 66-73: the connection stays as it is
\* whether sendall raises or not
SendBlob ==
    /\ \E ok \in BOOLEAN :
           \E r \in {send(self_conn # 0, ok)} :
               /\ poll_did' = [NoPoll EXCEPT !.sent = IF r.result THEN "ok" ELSE "failed"]
               /\ self_conn' = IF r.conn THEN self_conn ELSE 0
               /\ open_socks' = IF r.conn THEN open_socks ELSE open_socks \ {self_conn}
               /\ conn' = r.conn
    /\ UNCHANGED <<srv_pending, accepted, peer, left_over>>
    /\ UNCHANGED <<text_max_payload, d_items, d_sent, d_failed>>
    /\ UNCHANGED <<commit_vars, parser_vars, worker_vars, ring_vars, stop_vars, dec_vars,
                   ingest_vars>>

-----------------------------------------------------------------------------
(* pipeline/coordinator.py: _poll_network on the endpoint, the parser and the carry *)

\* what _poll_network reads and writes
NetState ==
    [buf |-> _buf, out |-> <<>>, lang |-> co_current_lang, carry |-> carry, q |-> audio_q,
     dropped |-> q_dropped, decoded |-> i_decoded, pkts |-> i_pkts, chunk |-> i_chunk]

\* lines 213-224 on the whole frames of the payload
ingest_frames(st, whole, samples) ==
    [st EXCEPT !.decoded = @ \o whole,
               !.chunk = [made |-> samples # <<>>, payload |-> whole,
                          channel |-> _lang_to_channel(st.lang), lang |-> st.lang,
                          samples |-> samples],
               !.q = IF samples = <<>> THEN @
                     ELSE put_nowait(@, [lang |-> st.lang, samples |-> samples]),
               !.dropped = IF samples = <<>> THEN @ ELSE Len(st.q) >= MaxQueue]

\* lines 206-219: the carry and the payload joined, cut at the last whole frame
ingest_audio(st, bytes) ==
    IF Take(bytes, trim_len(bytes)) = <<>>
    THEN [st EXCEPT !.carry = Drop(bytes, trim_len(bytes)), !.chunk = NoChunk]
    ELSE ingest_frames([st EXCEPT !.carry = Drop(bytes, trim_len(bytes))],
                       Take(bytes, trim_len(bytes)),
                       decode_packed_24bit_stereo_to_mono(Take(bytes, trim_len(bytes)),
                                                          co_channels,
                                                          _lang_to_channel(st.lang)))

\* lines 200-224: the body of the loop for one packet
ingest_one(st, pkt) ==
    IF is_audio(pkt)
    THEN ingest_audio([st EXCEPT !.pkts = Append(@, pkt),
                                 !.lang = _flags_to_lang(pkt.flags, st.lang)],
                      join_carry(st.carry, pkt.payload))
    ELSE [st EXCEPT !.pkts = Append(@, pkt), !.chunk = NoChunk]

\* line 199: for pkt in self.parser.feed(data)
RECURSIVE ingest_all(_, _)
ingest_all(st, pkts) ==
    IF pkts = <<>> THEN st ELSE ingest_all(ingest_one(st, Head(pkts)), Tail(pkts))

ingest_parsed(st, r) == ingest_all([st EXCEPT !.buf = r.buf, !.out = r.out], r.out)

\* a coordinator that forgets the buffered bytes when poll returns nothing
poll_network_reset(st, data) ==
    IF data = <<>> THEN [st EXCEPT !.buf = <<>>, !.carry = <<>>]
    ELSE ingest_parsed(st, parser_feed(st.buf, data, MaxPayload))

\* Coordinator._poll_network after server.poll has returned data
_poll_network(st, data) ==
    IF data = <<>> THEN st
    ELSE ingest_parsed(st, parser_feed(st.buf, data, MaxPayload))

\* conn.recv(4096) returns RecvSlice bytes of the stream, or all that is left
\* of it (the program reads 4096 bytes at most)
RecvSlice == 3

\* Coordinator._poll_network: one poll of the endpoint; recv returns the next
\* bytes of the stream the clients send
PollNetwork ==
    /\ InLoop
    /\ PollSockets
    /\ \E n \in (IF poll_did'.data THEN {Min(RecvSlice, Len(wire)), Len(wire)} ELSE {0}) :
       \E st \in {_poll_network(NetState, Take(wire, n))} :
           /\ wire' = Drop(wire, n)
           /\ p_fed' = p_fed + n
           /\ p_calls' = IF n = 0 THEN p_calls ELSE Min(p_calls + 1, 2)
           /\ _buf' = st.buf
           /\ p_out' = st.out
           /\ p_all' = p_all \o st.out
           /\ co_current_lang' = st.lang
           /\ carry' = st.carry
           /\ audio_q' = st.q
           /\ q_dropped' = st.dropped
           /\ i_decoded' = st.decoded
           /\ i_pkts' = st.pkts
           /\ i_chunk' = st.chunk
    /\ UNCHANGED <<p_junk, p_sent, co_channels>>
    /\ UNCHANGED <<tx_q, buffer, current_lang, since_audio, rate_wait, w_alive, w_event,
                   w_prev_lang, w_had_audio, w_flush, w_mid, w_put, w_raised,
                   since_asr, w_asr_gap, w_started, w_after_stop>>
    /\ UNCHANGED <<commit_vars, ring_vars, stop_vars, dec_vars>>

\* the connected client sends the next bytes of its stream, closes, or its
\* connection breaks
PeerSpeaks ==
    /\ PeerActs
    /\ peer' = "data" => wire # <<>>

\* the packets of the streams the clients send: AUDIO with and without a
\* language flag, and one packet of another type
NetPackets ==
    {Packet(MSG_TYPE_AUDIO, f, p) : f \in {0, FLAG_LANG2_IN},
                                   p \in {<<MAGIC>>, <<MAGIC, VERSION>>}}
        \cup {Packet(MSG_TYPE_TEXT, FLAG_LANG1_IN, <<>>)}

\* the clients send MaxNetPkts packets between them
MaxNetPkts == 2

NetLists == [1..MaxNetPkts -> NetPackets]

NetNext ==
    \/ ClientArrives
    \/ PeerSpeaks
    \/ PollNetwork

TcpNext ==
    \/ ClientArrives
    \/ PeerActs
    \/ Poll
    \/ SendBlob

RestInit ==
    /\ RingInit({MaxBufferSamples}) /\ TxInit({MaxTextPayload}) /\ StopInit
    /\ DecodeInit({<<>>}) /\ IngestInit({2}) /\ TcpInit

-----------------------------------------------------------------------------
(* Specifications *)

CommitConfigs == [history_len : HistoryLens,
                  min_commit_chars : MinCommitChars,
                  min_overlap_chars : {MIN_OVERLAP_CHARS}]

\* CommitConfig(): the defaults
DefaultCommitConfig == [history_len |-> 3, min_commit_chars |-> 1,
                        min_overlap_chars |-> MIN_OVERLAP_CHARS]

\* the commit engine alone, fed only
InitCommit == CommitterInit(CommitConfigs) /\ ParserInit({<<>>}, {<<>>}) /\ WorkerInit /\ RestInit

SpecFeed == InitCommit /\ [][FeedNext]_vars

\* the commit engine alone
SpecCommit == InitCommit /\ [][CommitNext]_vars

\* the stream parser fed a stream of valid packets in any slices
InitParser == CommitterInit({DefaultCommitConfig}) /\ ParserInit({<<>>}, PacketLists) /\ WorkerInit /\ RestInit

SpecParser == InitParser /\ [][ParserNext]_vars

\* the stream parser fed junk and then valid packets
InitResync == CommitterInit({DefaultCommitConfig}) /\ ParserInit(Junk, PacketLists) /\ WorkerInit /\ RestInit

SpecResync == InitResync /\ [][ResyncNext]_vars

\* the stream parser fed valid and oversized frames in any slices
InitOversize == CommitterInit({DefaultCommitConfig}) /\ ParserInit({<<>>}, OversizedLists) /\ WorkerInit /\ RestInit

SpecOversize == InitOversize /\ [][ParserNext]_vars

\* a ring buffer of any small capacity: appends, clears and reads in any order
InitRing ==
    /\ CommitterInit({DefaultCommitConfig}) /\ ParserInit({<<>>}, {<<>>}) /\ WorkerInit
    /\ RingInit(0..MaxCapacity) /\ TxInit({MaxTextPayload}) /\ StopInit
    /\ DecodeInit({<<>>}) /\ IngestInit({2}) /\ TcpInit

SpecRing == InitRing /\ [][RingNext]_vars

\* the TX drain on a queue of translations
InitDrain ==
    /\ CommitterInit({DefaultCommitConfig}) /\ ParserInit({<<>>}, {<<>>})
    /\ WorkerInitWith(DrainQueues)
    /\ RingInit({MaxBufferSamples}) /\ TxInit(1..MaxTextPayload) /\ StopInit
    /\ DecodeInit({<<>>}) /\ IngestInit({2}) /\ TcpInit

SpecDrain == InitDrain /\ [][DrainNext]_vars

\* the committer as the worker drives it
SpecProcess == InitCommit /\ [][ProcessNext]_vars

\* the decoder on every small payload
InitDecode ==
    /\ CommitterInit({DefaultCommitConfig}) /\ ParserInit({<<>>}, {<<>>}) /\ WorkerInit
    /\ RingInit({MaxBufferSamples}) /\ TxInit({MaxTextPayload}) /\ StopInit
    /\ DecodeInit(DecPayloads) /\ IngestInit({2}) /\ TcpInit

SpecDecode == InitDecode /\ [][DecodeNext]_vars

\* the coordinator taking packets, with one and with two channels
InitIngest ==
    /\ CommitterInit({DefaultCommitConfig}) /\ ParserInit({<<>>}, {<<>>}) /\ WorkerInit
    /\ RingInit({MaxBufferSamples}) /\ TxInit({MaxTextPayload}) /\ StopInit
    /\ DecodeInit({<<>>}) /\ IngestInit({1, 2}) /\ TcpInit

SpecIngest == InitIngest /\ [][IngestNext]_vars

\* the connection field and the open sockets agree, one socket at most
OneClient ==
    /\ Cardinality(open_socks) <= 1
    /\ open_socks = (IF self_conn = 0 THEN {} ELSE {self_conn})
    /\ conn = (self_conn # 0)

\* C28: the endpoint holds one client connection at most in every state; a poll
\* that finds a client waiting accepts it, closes the connection before it and
\* makes the new socket the connection; a poll whose recv meets the end of the
\* stream or an error closes the connection and clears it, and a client that
\* comes after that is accepted again
C28_OneClient ==
    /\ []OneClient
    /\ [][(Poll /\ srv_pending > 0) =>
              /\ self_conn' = accepted'
              /\ self_conn' \notin open_socks
              /\ open_socks' = {self_conn'}]_vars
    /\ [][(Poll /\ srv_pending = 0 /\ peer \in {"eof", "error"}) =>
              /\ self_conn' = 0
              /\ open_socks' = {}
              /\ ~poll_did'.data]_vars
    /\ [](srv_pending > 0 => ENABLED (Poll /\ poll_did'.accepted))

\* a client was accepted while another was connected, and the one before it
\* was closed
C28_Witness ==
    /\ poll_did.accepted
    /\ poll_did.closed # 0
    /\ self_conn # poll_did.closed
    /\ open_socks = {self_conn}

\* the endpoint alone, clients coming, sending and going
InitTcp ==
    /\ CommitterInit({DefaultCommitConfig}) /\ ParserInit({<<>>}, {<<>>}) /\ WorkerInit
    /\ RestInit

SpecTcp == InitTcp /\ [][TcpNext]_vars

\* the coordinator polling the endpoint while clients come, send a stream of
\* packets in slices, and go; one audio channel, so that a frame is three bytes
InitNetwork ==
    /\ CommitterInit({DefaultCommitConfig}) /\ ParserInit({<<>>}, NetLists) /\ WorkerInit
    /\ RingInit({MaxBufferSamples}) /\ TxInit({MaxTextPayload}) /\ StopInit
    /\ DecodeInit({<<>>}) /\ IngestInit({1}) /\ TcpInit

SpecNetwork == InitNetwork /\ [][NetNext]_vars

\* translations waiting in tx_q when the program is shut down
ShutdownQueues == {<<>>} \cup [1..1 -> DrainItems]

\* the coordinator and an idle worker, until the program is shut down
InitShutdown ==
    /\ CommitterInit({DefaultCommitConfig}) /\ ParserInit({<<>>}, {<<>>})
    /\ WorkerInitWith(ShutdownQueues)
    /\ RestInit

SpecShutdown ==
    InitShutdown /\ [][ShutdownNext]_vars /\ WF_vars(LoopExit) /\ WF_vars(WorkerStarts)
        /\ WF_vars(WorkerTimeout)

\* the worker thread, the coordinator putting chunks and draining translations;
\* the worker loop and the coordinator loop both keep running
InitWorker == CommitterInit({DefaultCommitConfig}) /\ ParserInit({<<>>}, {<<>>}) /\ WorkerInit /\ RestInit

SpecWorker == InitWorker /\ [][WorkerNext]_vars /\ WF_vars(WorkerStep) /\ WF_vars(DrainTx)

-----------------------------------------------------------------------------
(* Commit engine: properties *)

\* the longest sequence every element of items starts with
CommonPrefix(items) ==
    LET all == {Take(items[1], n) : n \in 0..Len(items[1])}
        common == {p \in all : \A i \in 1..Len(items) : StartsWith(items[i], p)}
    IN  CHOOSE p \in common : \A q \in common : Len(q) <= Len(p)

IsTrimmed(t) == t # <<>> /\ t[1] # WS /\ t[Len(t)] # WS

\* C1: as long as no drift correction has truncated C since the reset, the
\* deltas feed has returned, concatenated, are the committed prefix C.
C1_DeltasConcatToCommitted ==
    (c_op = "feed" /\ ~c_drift) => c_acc = _committed

\* C2: with history_len = 3 and min_commit_chars = 1, feed commits new text
\* only once history_len transcripts held in the history agree on it as a
\* prefix, so the first and the second feed of a string after a reset return
\* an empty delta and the third commits it.
C2_CommitNeedsFullHistory ==
    (/\ commit_config.history_len = 3 /\ commit_config.min_commit_chars = 1
     /\ c_op = "feed" /\ c_delta # <<>>) =>
        /\ Len(_history) = commit_config.history_len
        /\ \A i \in 1..Len(_history) : StartsWith(_history[i], _committed)

\* C3: a feed whose text does not start with a non-empty C and overlaps it by
\* ov >= min_overlap_chars characters leaves C truncated to its last ov
\* characters, which are text[:ov].
C3_DriftTruncates ==
    [][(/\ c_op' = "feed"
        /\ c_text' # <<>>
        /\ _committed # <<>>
        /\ ~StartsWith(c_text', _committed)
        /\ _overlap_suffix_prefix(_committed, c_text') >= commit_config.min_overlap_chars)
       => LET ov == _overlap_suffix_prefix(_committed, c_text')
          IN  /\ _committed' = LastN(_committed, ov)
              /\ _committed' = Take(c_text', ov)]_vars

\* the texts the claim C4 is about: the last min(k, H) texts fed
ChainTail == LastN(c_recent, Min(Len(c_recent), commit_config.history_len))

\* C4: after feeding a chain of texts (non-empty, trimmed), each a prefix of
\* the next, C is the longest common prefix of the last min(k, H) texts fed
\* and the deltas returned concatenate to C.
C4_PrefixChain ==
    (/\ c_op = "feed" /\ c_chain /\ c_recent # <<>>
     /\ \A i \in 1..Len(c_recent) : IsTrimmed(c_recent[i])) =>
        /\ _committed = CommonPrefix(ChainTail)
        /\ c_acc = _committed

\* C4 as amended: the same, for a committer with min_commit_chars = 1.
C4_PrefixChainTrimmed ==
    (/\ c_op = "feed" /\ c_chain /\ c_recent # <<>>
     /\ commit_config.min_commit_chars = 1
     /\ \A i \in 1..Len(c_recent) : IsTrimmed(c_recent[i])) =>
        /\ _committed = CommonPrefix(ChainTail)
        /\ c_acc = _committed

\* a chain of three growing texts fed to a committer of history length 2
C4_Witness ==
    /\ c_op = "feed" /\ c_chain /\ Len(c_recent) = 3
    /\ commit_config.min_commit_chars = 1
    /\ commit_config.history_len = 2
    /\ \A i \in 1..Len(c_recent) : IsTrimmed(c_recent[i])
    /\ Len(c_recent[1]) < Len(c_recent[2])
    /\ Len(c_recent[2]) < Len(c_recent[3])
    /\ _committed = c_recent[2]

\* what finalize(text) is to return from the committed prefix c
FinalizeDelta(c, text) ==
    IF StartsWith(text, c) THEN Drop(text, Len(c))
    ELSE IF c # <<>> /\ _overlap_suffix_prefix(c, text) > 0
    THEN Drop(text, _overlap_suffix_prefix(c, text))
    ELSE text

\* C5: finalize(text) with a text that is non-empty after trimming ends with
\* C = text and an empty history and returns the part of text beyond C_prev
\* (or beyond the overlap, or all of it); with an empty text it returns empty
\* and changes nothing.
C5_Finalize ==
    [][c_op' = "finalize" =>
        IF c_text' = <<>>
        THEN c_delta' = <<>> /\ _committed' = _committed /\ _history' = _history
        ELSE /\ _committed' = c_text'
             /\ _history' = <<>>
             /\ c_delta' = FinalizeDelta(_committed, c_text')]_vars

\* C21: when C is not empty, the trimmed text does not start with C and the
\* overlap of C and the text is below min_overlap_chars, feed leaves C as it
\* was: the history is cleared and restarted from the text, and C is still the
\* prefix committed before when feed returns.
C21_NoiseKeepsCommitted ==
    [][(/\ c_op' = "feed"
        /\ c_text' # <<>>
        /\ <<c_op', c_text', c_delta', _history', _committed'>> #
               <<c_op, c_text, c_delta, _history, _committed>>
        /\ _committed # <<>>
        /\ ~StartsWith(c_text', _committed)
        /\ _overlap_suffix_prefix(_committed, c_text') < commit_config.min_overlap_chars)
       => (_history' = <<c_text'>> /\ _committed' = _committed)]_vars

\* C22: on a flush with a non-empty transcript the transcript is applied to the
\* commit engine as a finalize: the delta handed to the translator is the
\* delta finalize(text) alone returns from the commit state held just before
\* the flush.
C22_FlushIsFinalize ==
    [][c_op' = "flush" =>
          c_delta' = finalize(commit_config, CommitterState, c_text').delta]_vars

-----------------------------------------------------------------------------
(* Frame codec: properties *)

\* the number of stream bytes up to the end of the j-th packet sent
RECURSIVE FrameEnd(_)
FrameEnd(j) ==
    IF j = 0 THEN Len(p_junk)
    ELSE FrameEnd(j - 1) + HDR_SIZE + Len(p_sent[j].payload)

\* the packets whose final byte is among the first n bytes of the stream
CompleteBy(n) ==
    Take(p_sent, Cardinality({j \in 1..Len(p_sent) : FrameEnd(j) <= n}))

\* the whole stream has gone to the parser in one feed call
FedAtOnce == p_calls = 1 /\ wire = <<>>

\* C8: build_packet(msg_type, flags, payload) fed to a fresh parser yields
\* exactly one Packet with the same msg_type, flags and payload, and leaves the
\* parser buffer empty.
C8_RoundTrip ==
    (p_junk = <<>> /\ Len(p_sent) = 1 /\ FedAtOnce) =>
        /\ p_out = <<Packet(p_sent[1].msg_type, p_sent[1].flags, p_sent[1].payload)>>
        /\ _buf = <<>>

\* a packet with the largest payload has made the round trip
C8_Witness ==
    /\ p_junk = <<>> /\ Len(p_sent) = 1 /\ FedAtOnce
    /\ Len(p_sent[1].payload) = MaxPayload
    /\ p_sent[1].flags = 255
    /\ p_out = p_sent

\* C9: however a concatenation of valid packets is sliced, the packets
\* returned so far are the packets whose final byte has been fed, in order,
\* and once all slices are fed they are what one feed of the concatenation
\* returns.
C9_Chunking ==
    p_junk = <<>> =>
        /\ p_all = CompleteBy(p_fed)
        /\ wire = <<>> => p_all = parser_feed(<<>>, Encode(p_sent), MaxPayload).out

\* two packets fed in several slices, the last slice completing the second
C9_Witness ==
    /\ p_junk = <<>> /\ Len(p_sent) = 2 /\ wire = <<>> /\ p_calls = 2
    /\ p_sent[1] # p_sent[2]
    /\ p_out = <<p_sent[2]>>
    /\ p_all = p_sent

\* C10: junk followed by N valid packets in one feed call returns no packet;
\* the junk in one feed call and the N packets in the next returns the N
\* packets.
C10_Resync ==
    (p_junk # <<>> /\ wire = <<>>) =>
        /\ p_calls = 1 => p_all = <<>>
        /\ p_calls = 2 => p_out = p_sent

\* C10 as amended: the second call returns the N packets when the junk is at
\* least HDR_SIZE bytes long.
C10_ResyncLongJunk ==
    (p_junk # <<>> /\ wire = <<>>) =>
        /\ p_calls = 1 => p_all = <<>>
        /\ (p_calls = 2 /\ Len(p_junk) >= HDR_SIZE) => p_out = p_sent

\* junk of HDR_SIZE bytes in one call, then two packets in the next
C10_Witness ==
    /\ Len(p_junk) = HDR_SIZE /\ wire = <<>> /\ p_calls = 2
    /\ Len(p_sent) = 2
    /\ p_out = p_sent

\* the frames of frames whose payload the parser accepts, in order
RECURSIVE Accepted(_)
Accepted(frames) ==
    IF frames = <<>> THEN <<>>
    ELSE IF Len(frames[1].payload) <= MaxPayload
    THEN <<frames[1]>> \o Accepted(Tail(frames))
    ELSE Accepted(Tail(frames))

\* C11: no returned Packet has a payload longer than max_payload; however the
\* stream is sliced, once every byte of an oversized frame has been fed the
\* packets returned so far are the valid frames whose final byte has been fed,
\* in order, and in the end they are what the stream without the oversized
\* frames yields, with nothing left in the buffer.
C11_Oversize ==
    /\ \A i \in 1..Len(p_all) : Len(p_all[i].payload) <= MaxPayload
    /\ p_all = Accepted(CompleteBy(p_fed))
    /\ wire = <<>> =>
           /\ p_all = parser_feed(<<>>, Encode(Accepted(p_sent)), MaxPayload).out
           /\ _buf = <<>>

\* an oversized frame and then a valid packet, fed in several slices: the
\* packet came out and the oversized frame did not
C11_Witness ==
    /\ Len(p_sent) = 2 /\ wire = <<>> /\ p_calls = 2
    /\ Len(p_sent[1].payload) > MaxPayload
    /\ Len(p_sent[2].payload) = MaxPayload
    /\ p_all = <<p_sent[2]>>
    /\ _buf = <<>>

-----------------------------------------------------------------------------
(* Ring buffer: properties *)

\* C12: after appends totalling S samples into a ring buffer of capacity C,
\* with no clear in between, size is min(S, C) and the content is the last
\* min(S, C) samples of everything appended, in order; size <= capacity always.
C12_RingTail ==
    /\ Len(_data) = Min(Len(r_all), _max_samples)
    /\ _data = LastN(r_all, Min(Len(r_all), _max_samples))
    /\ Len(_data) <= _max_samples

\* more samples were appended than the buffer holds, in more than one append
C12_Witness ==
    /\ r_op = "append"
    /\ _max_samples = 2
    /\ Len(r_all) = MaxAppended
    /\ r_all[Len(r_all)] # r_all[Len(r_all) - 1]
    /\ _data = <<r_all[Len(r_all) - 1], r_all[Len(r_all)]>>

\* C13: get_last(n) returns the last min(n, size) samples of the buffer, in
\* order, so get_last(0) returns no samples, and leaves the buffer unchanged.
C13_GetLast ==
    [][r_op' = "get_last" =>
          /\ r_ret' = LastN(_data, Min(r_count', Len(_data)))
          /\ (r_count' = 0 => r_ret' = <<>>)
          /\ _data' = _data]_vars

-----------------------------------------------------------------------------
(* TX drain: properties *)

\* the j-th of the consecutive m-byte slices of raw
Slice(raw, j, m) == SubSeq(raw, (j - 1) * m + 1, Min(j * m, Len(raw)))

\* the TEXT packet the claim C14 expects for slice j of an item
ExpectedPacket(item, j, m) ==
    <<MAGIC, VERSION, MSG_TYPE_TEXT, IF item.lang = "lang1" THEN 8 ELSE 4>>
        \o U32BE(Len(Slice(encode(item.text), j, m))) \o Slice(encode(item.text), j, m)

\* ceil(L / m) packets for an item of L bytes
ExpectedOf(item, m) ==
    [j \in 1..((Len(encode(item.text)) + m - 1) \div m) |-> ExpectedPacket(item, j, m)]

RECURSIVE ExpectedOfAll(_, _)
ExpectedOfAll(items, m) ==
    IF items = <<>> THEN <<>> ELSE ExpectedOf(Head(items), m) \o ExpectedOfAll(Tail(items), m)

\* C14: for a text of L UTF-8 bytes and text_max_payload = m the drain sends
\* ceil(L/m) TEXT packets, in order, whose payloads are the consecutive m-byte
\* slices of the text, the last one L mod m bytes when that is not zero, with
\* flags 0x08 for src_lang lang1 and 0x04 for lang2; a drain that a failing
\* send stopped has sent the first of these packets.
C14_DrainPackets ==
    /\ ~d_failed => d_sent = ExpectedOfAll(d_items, text_max_payload)
    /\ d_failed =>
           \E k \in 0..Len(ExpectedOfAll(d_items, text_max_payload)) :
               d_sent = Take(ExpectedOfAll(d_items, text_max_payload), k)

\* a text of 7 bytes drained with text_max_payload = 3: three packets of 3, 3
\* and 1 bytes with flags 0x08
C14_Witness ==
    /\ ~d_failed /\ text_max_payload = 3
    /\ Len(d_items) = 1 /\ d_items[1].lang = "lang1" /\ Len(encode(d_items[1].text)) = 7
    /\ Len(d_sent) = 3
    /\ \A i \in 1..3 : d_sent[i][4] = 8
    /\ Len(d_sent[1]) = HDR_SIZE + 3 /\ Len(d_sent[2]) = HDR_SIZE + 3
    /\ Len(d_sent[3]) = HDR_SIZE + 1

\* bytes that are whole UTF-8 codepoints
RECURSIVE IsWholeUtf8(_)
IsWholeUtf8(b) ==
    IF b = <<>> THEN TRUE
    ELSE LET n == IF b[1] < 128 THEN 1
                  ELSE IF b[1] \in 192..223 THEN 2
                  ELSE IF b[1] \in 224..239 THEN 3
                  ELSE 0
         IN  /\ n # 0
             /\ Len(b) >= n
             /\ \A i \in 2..n : b[i] \in 128..191
             /\ IsWholeUtf8(Drop(b, n))

\* C15: no TEXT packet payload of the drain begins or ends in the middle of a
\* multi-byte UTF-8 codepoint.
C15_CodepointBoundary ==
    \A i \in 1..Len(d_sent) : IsWholeUtf8(Drop(d_sent[i], HDR_SIZE))

\* the UTF-8 bytes of the texts of items, in queue order
RECURSIVE TextBytes(_)
TextBytes(items) ==
    IF items = <<>> THEN <<>> ELSE encode(Head(items).text) \o TextBytes(Tail(items))

\* the payload bytes of the packets pkts, in the order sent
RECURSIVE PayloadBytes(_)
PayloadBytes(pkts) ==
    IF pkts = <<>> THEN <<>> ELSE Drop(Head(pkts), HDR_SIZE) \o PayloadBytes(Tail(pkts))

\* C25: TEXT packets reach the wire in production order: the payloads sent by
\* a drain, taken together, are the beginning of the texts of the queue in
\* queue order (every packet of an earlier translation before every packet of
\* a later one, the chunks of a translation at increasing offsets); no packet
\* spans two translations; and the items the drain leaves are the end of the
\* queue, in order, with none of their bytes sent.
C25_ProductionOrder ==
    d_items # <<>> =>
        /\ PayloadBytes(d_sent) = Take(TextBytes(d_items), Len(PayloadBytes(d_sent)))
        /\ \A i \in 1..Len(d_items) :
               Len(TextBytes(Take(d_items, i))) <= Len(PayloadBytes(d_sent)) =>
                   \E n \in 0..Len(d_sent) :
                       Len(PayloadBytes(Take(d_sent, n))) = Len(TextBytes(Take(d_items, i)))
        /\ \E k \in 1..Len(d_items) :
               /\ tx_q = Drop(d_items, k)
               /\ Len(PayloadBytes(d_sent)) <= Len(TextBytes(Take(d_items, k)))

\* a drain of two different translations, the first of them in two packets or
\* more, in which every send succeeded
C25_Witness ==
    /\ Len(d_items) = 2 /\ d_items[1].text # d_items[2].text
    /\ ~d_failed /\ tx_q = <<>>
    /\ Len(TextPackets(d_items[1], text_max_payload)) >= 2
    /\ Len(d_sent) >= 3

\* C26: a send that returns false leaves the connection state as it was, and
\* every send returns false while there is no connection; a drain in which a
\* send returned false stops there: the packets sent are those before the
\* failing one, no further chunk of that text is sent, and the items behind it
\* stay in the queue in order.
C26_SendFails ==
    [][tx_q' # tx_q =>
          /\ ~conn => (d_failed' /\ d_sent' = <<>>)
          /\ d_failed' =>
                 /\ conn' = conn
                 /\ d_sent' = Take(ExpectedOfAll(tx_q, text_max_payload), Len(d_sent'))
                 /\ \E k \in 1..Len(tx_q) :
                        /\ tx_q' = Drop(tx_q, k)
                        /\ PacketCount(Take(tx_q, k - 1), text_max_payload) <= Len(d_sent')
                        /\ Len(d_sent') < PacketCount(Take(tx_q, k), text_max_payload)]_vars

\* a client is connected, the first of two translations makes two packets or
\* more; its first packet was sent, the next send failed, and the second
\* translation is still in the queue
C26_Witness ==
    /\ conn /\ d_failed
    /\ Len(d_items) = 2
    /\ Len(TextPackets(d_items[1], text_max_payload)) >= 2
    /\ Len(d_sent) = 1
    /\ tx_q = <<d_items[2]>>

-----------------------------------------------------------------------------
(* Decoder: properties *)

\* the two's-complement reading of packed sample k of p, least significant byte first
TwosComplement(p, k) ==
    LET u == p[3 * k - 2] + 256 * p[3 * k - 1] + 65536 * p[3 * k]
    IN  IF p[3 * k] >= 128 THEN u - 16777216 ELSE u

\* C20: the value of a packed 24-bit little-endian sample is the
\* two's-complement reading of its three bytes and the result is that integer
\* over 2^23 (twice that integer, in units of 2^-24): 00 00 00 gives 0,
\* FF FF 7F gives (2^23 - 1)/2^23 and 00 00 80 gives -1.0. With channels = 2
\* the output has floor(floor(len/3)/2) samples, sample i being column 0 (left)
\* or column 1 (right) of frame i; with channels = 1 it has every sample.
C20_Decode ==
    (dec_called /\ dec_select \in {"left", "right"}) =>
        /\ dec_channels = 1 =>
               /\ Len(dec_out) = Len(dec_payload) \div 3
               /\ \A i \in 1..Len(dec_out) : dec_out[i] = 2 * TwosComplement(dec_payload, i)
        /\ dec_channels = 2 =>
               /\ Len(dec_out) = (Len(dec_payload) \div 3) \div 2
               /\ \A i \in 1..Len(dec_out) :
                      dec_out[i] = 2 * TwosComplement(dec_payload,
                                          IF dec_select = "left" THEN 2 * i - 1 ELSE 2 * i)
        /\ (dec_payload = <<0, 0, 0>> /\ dec_channels = 1) => dec_out = <<0>>
        /\ (dec_payload = <<255, 255, 127>> /\ dec_channels = 1) => dec_out = <<2 * (8388608 - 1)>>
        /\ (dec_payload = <<0, 0, 128>> /\ dec_channels = 1) => dec_out = <<0 - 16777216>>

\* 14 bytes, two channels, left: the frames (FF FF 7F, 00 00 00) and
\* (00 00 80, 00 01 00) and two bytes over give (2^23 - 1)/2^23 and -1.0
C20_Witness ==
    /\ dec_called /\ dec_channels = 2 /\ dec_select = "left"
    /\ dec_payload = <<255, 255, 127, 0, 0, 0, 0, 0, 128, 0, 1, 0, 0, 128>>
    /\ dec_out = <<16777214, 0 - 16777216>>

-----------------------------------------------------------------------------
(* Ingest: properties *)

\* the longest prefix of stream whose length is a multiple of 3 * channels
WholeFrames(stream) == Len(stream) - (Len(stream) % (3 * co_channels))

\* C23: for any split of an audio byte stream into AUDIO packet payloads, after
\* each packet the bytes passed to the decoder so far, concatenated, are the
\* longest prefix of the stream received so far whose length is a multiple of
\* frame_bytes = 3 * channels, and carry holds the remaining bytes: carry is
\* shorter than frame_bytes and no byte is lost, duplicated or reordered.
C23_Carry ==
    /\ i_decoded = Take(AudioBytes(i_pkts), WholeFrames(AudioBytes(i_pkts)))
    /\ carry = Drop(AudioBytes(i_pkts), WholeFrames(AudioBytes(i_pkts)))
    /\ Len(carry) < 3 * co_channels

\* two channels, AUDIO packets of 2, 4 and 2 bytes: the frame of 6 bytes that
\* spans the first two packets has been decoded and 2 bytes are carried
C23_Witness ==
    /\ co_channels = 2
    /\ Len(i_pkts) = 3
    /\ \A k \in 1..3 : i_pkts[k].msg_type = MSG_TYPE_AUDIO
    /\ Len(i_pkts[1].payload) = 2 /\ Len(i_pkts[2].payload) = 4 /\ Len(i_pkts[3].payload) = 2
    /\ i_decoded = i_pkts[1].payload \o i_pkts[2].payload
    /\ carry = i_pkts[3].payload

\* the label the most recent AUDIO packet of ps with bit 0x01 or 0x02 selects,
\* 0x01 first; lang1 when there is no such packet
RECURSIVE SelectedLang(_)
SelectedLang(ps) ==
    IF ps = <<>> THEN "lang1"
    ELSE IF ps[Len(ps)].msg_type = MSG_TYPE_AUDIO /\ ps[Len(ps)].flags % 2 = 1 THEN "lang1"
    ELSE IF ps[Len(ps)].msg_type = MSG_TYPE_AUDIO /\ ps[Len(ps)].flags \in {2, 3} THEN "lang2"
    ELSE SelectedLang(SubSeq(ps, 1, Len(ps) - 1))

\* C24: after any sequence of inbound AUDIO packets the coordinator's current
\* language is the label selected by the most recent packet with bit 0x01 or
\* 0x02 set (0x01 first when both are set), lang1 if there is none; the chunk
\* enqueued for a packet is tagged with the language in force for that packet
\* and, of two channels, decoded from the left channel for lang1 and the right
\* channel for lang2.
C24_Language ==
    /\ co_current_lang = SelectedLang(i_pkts)
    /\ i_chunk.made =>
           /\ i_chunk.lang = SelectedLang(i_pkts)
           /\ i_chunk.channel = (IF i_chunk.lang = "lang1" THEN "left" ELSE "right")
           /\ co_channels = 2 =>
                  /\ Len(i_chunk.samples) = Len(i_chunk.payload) \div 6
                  /\ \A k \in 1..Len(i_chunk.samples) :
                         i_chunk.samples[k] =
                             2 * TwosComplement(i_chunk.payload,
                                     IF i_chunk.lang = "lang1" THEN 2 * k - 1 ELSE 2 * k)
           /\ ~q_dropped =>
                  audio_q[Len(audio_q)] = [lang |-> i_chunk.lang, samples |-> i_chunk.samples]

\* two channels, AUDIO packets with flags 0x03, 0x02 and 0x00: the first
\* selects lang1, the second lang2, and the chunk of the third is a lang2
\* chunk decoded from the right channel
C24_Witness ==
    /\ co_channels = 2
    /\ Len(i_pkts) = 3
    /\ \A k \in 1..3 : i_pkts[k].msg_type = MSG_TYPE_AUDIO /\ Len(i_pkts[k].payload) = 4
    /\ i_pkts[1].flags = 3 /\ i_pkts[2].flags = 2 /\ i_pkts[3].flags = 0
    /\ co_current_lang = "lang2"
    /\ i_chunk.made /\ i_chunk.lang = "lang2" /\ i_chunk.channel = "right"
    /\ audio_q[2] = [lang |-> "lang2", samples |-> i_chunk.samples]

\* C29: an inbound packet whose msg_type is not AUDIO changes nothing in the
\* coordinator: the current language, the carry and the inbound audio queue
\* are after it what they were before it, whatever its flags and payload.
C29_OtherTypesIgnored ==
    [][(i_pkts' # i_pkts /\ i_pkts'[Len(i_pkts')].msg_type # MSG_TYPE_AUDIO) =>
          /\ co_current_lang' = co_current_lang
          /\ carry' = carry
          /\ audio_q' = audio_q]_vars

\* a TEXT packet with the lang2 flag and three payload bytes has been
\* processed while lang1 was current, two bytes were carried and a chunk queued
C29_Witness ==
    /\ Len(i_pkts) = 3
    /\ i_pkts[3] = Packet(MSG_TYPE_TEXT, FLAG_LANG2_IN, <<9, 9, 9>>)
    /\ co_current_lang = "lang1"
    /\ Len(carry) = 2
    /\ Len(audio_q) = 1

-----------------------------------------------------------------------------
(* Pipeline worker: properties *)

CommitterIsReset == _committed = <<>> /\ _history = <<>>

\* the iteration of this step has processed the chunk c
Took(c) ==
    /\ since_audio' = 0
    /\ w_event' = IF c.lang # current_lang THEN "switch" ELSE "chunk"
    /\ w_mid'.appended =>
           /\ buffer' = RingAppend(w_mid'.buffer, c.samples)
           /\ w_alive' => current_lang' = c.lang

\* C17: audio_q never holds more than its capacity; a put is always possible
\* (the coordinator is never blocked) and on a full queue it drops the new chunk
\* and leaves the queue as it is; the queue changes only by a chunk accepted at
\* its tail and by the worker taking the chunk at its head, so the worker
\* dequeues the accepted chunks in the order of their acceptance.
C17_AudioQueue ==
    /\ [](Len(audio_q) <= MaxQueue)
    /\ [](ENABLED EnqueueAudio)
    /\ [][/\ q_dropped' => audio_q' = audio_q
          /\ \/ audio_q' = audio_q
             \/ /\ Len(audio_q) < MaxQueue
                /\ ~q_dropped'
                /\ \E lang \in Langs, n \in ChunkSizes :
                       audio_q' = Append(audio_q, AudioChunk(lang, n))
             \/ /\ audio_q # <<>>
                /\ audio_q' = Tail(audio_q)
                /\ Took(Head(audio_q))]_vars

\* a put on a full queue of two different chunks dropped the new chunk, after
\* the worker had taken a chunk
C17_Witness ==
    /\ q_dropped
    /\ Len(audio_q) = MaxQueue
    /\ audio_q[1] # audio_q[MaxQueue]
    /\ buffer # <<>>

\* C19: when the coordinator loop has ended by a keyboard interrupt or a fatal
\* exception, the stop flag is set and start has joined the worker thread
\* (waited until the worker had ended or a bounded timeout had elapsed) before
\* it returned or raised again.
C19_JoinOnExit == c_pc \in {"interrupted", "raised"} => (stop /\ joined)

C18_AsrRate == w_asr_gap >= StepTicks

\* C16: when the ASR or MT call of an iteration raises, the exception is caught
\* at the loop boundary: the worker keeps running, and the window whose call
\* raised has fed nothing to the commit engine (the commit state is the one
\* before that window: after the switch flush when the chunk was appended,
\* else the one the iteration began with).
C16_ExceptionCaught ==
    [][w_raised' =>
          /\ w_alive'
          /\ [history |-> _history', committed |-> _committed'] =
                 IF w_mid'.appended THEN w_mid'.committer
                 ELSE [history |-> _history, committed |-> _committed]]_vars

IdleFlushDone == w_event = "idle_flush" /\ w_flush.ran /\ buffer = <<>> /\ CommitterIsReset

\* C6: whenever the ring buffer is non-empty and no chunk is waiting, either a
\* chunk arrives or the worker eventually performs an idle flush: the window is
\* transcribed and finalized, and afterwards the ring buffer is empty and the
\* commit state is reset.
C6_IdleFlush == (buffer # <<>> /\ audio_q = <<>>) ~> (audio_q # <<>> \/ IdleFlushDone)

\* C7: the ring buffer never holds samples of two languages; and when the
\* worker appends a chunk of another language, the window of the prior
\* language has been transcribed and finalized before, its translation was put
\* on tx_q tagged with the prior language, the ring buffer was empty and the
\* commit state reset at the moment of the append, and every item put for the
\* new language comes after the prior language's item.
C7_SwitchFlush ==
    /\ \A i \in 1..Len(buffer) : buffer[i] = current_lang
    /\ (w_event = "switch" /\ w_mid.appended) =>
        /\ current_lang # w_prev_lang
        /\ w_mid.buffer = <<>>
        /\ w_mid.committer = ResetCommitter
        /\ w_had_audio => w_flush.ran
        /\ w_flush.translated # <<>> =>
               /\ w_mid.nput = 1
               /\ w_put[1] = [text |-> w_flush.translated, lang |-> w_prev_lang]
        /\ \A i \in 1..Len(w_put) :
               w_put[i].lang = IF i <= w_mid.nput THEN w_prev_lang ELSE current_lang
        /\ \A i \in 1..Len(buffer) : buffer[i] = current_lang

\* a switch that flushed a translation of the prior language and, in the same
\* iteration, committed and translated a window of the new language
C7_Witness ==
    /\ w_event = "switch"
    /\ w_mid.appended
    /\ w_had_audio
    /\ w_mid.nput = 1
    /\ Len(w_put) = 2
    /\ buffer # <<>>

\* C30: whenever the worker is at the head of its loop with an empty ring
\* buffer, the committer is reset (nothing committed, no history); and a chunk
\* of another language that finds the ring empty, where _flush returns at once,
\* is appended with the committer still reset, so nothing committed for the
\* old language is carried into the new one.
C30_EmptyRingReset ==
    /\ (w_alive /\ buffer = <<>>) => CommitterIsReset
    /\ (w_event = "switch" /\ w_mid.appended /\ ~w_had_audio) =>
           /\ ~w_flush.ran
           /\ w_mid.buffer = <<>>
           /\ w_mid.committer = ResetCommitter

\* a chunk of another language found the ring empty, no flush ran, the chunk
\* was appended and the window of the new language committed and translated
C30_Witness ==
    /\ w_alive
    /\ w_event = "switch"
    /\ w_mid.appended
    /\ ~w_had_audio
    /\ w_prev_lang # current_lang
    /\ ~w_flush.ran
    /\ Len(w_put) = 1
    /\ w_put[1].lang = current_lang
    /\ _committed # <<>>

\* the bytes of the stream are all accounted for, in order: the packets
\* returned, then the parser buffer, then what has not arrived; and the audio
\* bytes of the packets returned are those decoded followed by the carry
NothingLost ==
    /\ Encode(p_all) \o _buf \o wire = Encode(p_sent)
    /\ i_pkts = p_all
    /\ i_decoded \o carry = AudioBytes(p_all)

=============================================================================
